---- MODULE Spec2Model ----
(***************************************************************************)
(* Streaming conversation pipeline of the voice assistant backend:         *)
(* transcription -> incremental assistant response -> per-sentence speech  *)
(* synthesis -> emotion tagging -> server-sent events.                     *)
(*                                                                         *)
(* Text is a sequence of one-character strings, so that trimming, the      *)
(* sentence terminator test, the regular-expression filter and keyword     *)
(* matching are computed character by character as the Python code does.   *)
(*                                                                         *)
(* Specifications: Spec (one pipeline run), FairSpec (the same with        *)
(* progress), ResolveSpec (context resolution), ResolveTwiceSpec (a        *)
(* resolution repeated with its own result), AudioRouteSpec (the audio     *)
(* route from request to end of stream), TwoRunsSpec (two runs served at   *)
(* the same time), SttSpec (speech_to_text), FilterSpec (the phrase        *)
(* filter), EmotionSpec (the emotion classifier), WakeSpec (the wake-word  *)
(* route), WakeLifeSpec (the wake-word model from import over the          *)
(* requests), ConstructSpec (threads constructing a singleton service).    *)
(***************************************************************************)
EXTENDS Integers, Sequences, FiniteSets, TLC

(***************************************************************************)
(* Text helpers (Python str methods used by the code)                      *)
(***************************************************************************)

\* str.strip()/rstrip() and the regex class \s: the whitespace characters.
IsSpace(c) == c \in {" ", "\n", "\t", "\r"}

\* str.lower() / re.IGNORECASE on the letters of the Latin alphabet.
LowerTable ==
  [A |-> "a", B |-> "b", C |-> "c", D |-> "d", E |-> "e", F |-> "f",
   G |-> "g", H |-> "h", I |-> "i", J |-> "j", K |-> "k", L |-> "l",
   M |-> "m", N |-> "n", O |-> "o", P |-> "p", Q |-> "q", R |-> "r",
   S |-> "s", T |-> "t", U |-> "u", V |-> "v", W |-> "w", X |-> "x",
   Y |-> "y", Z |-> "z"]

LowerChar(c) == IF c \in DOMAIN LowerTable THEN LowerTable[c] ELSE c

Lower(text) == [i \in 1..Len(text) |-> LowerChar(text[i])]

RECURSIVE RStrip(_)
RStrip(text) ==
  IF text = <<>> THEN <<>>
  ELSE IF IsSpace(text[Len(text)]) THEN RStrip(SubSeq(text, 1, Len(text) - 1))
  ELSE text

RECURSIVE LStrip(_)
LStrip(text) ==
  IF text = <<>> THEN <<>>
  ELSE IF IsSpace(text[1]) THEN LStrip(Tail(text))
  ELSE text

Strip(text) == LStrip(RStrip(text))

\* str.endswith(p) for a one-character p.
EndsWith(text, p) == text # <<>> /\ text[Len(text)] = p

\* `keyword in text`: substring test.
Contains(text, kw) ==
  \E i \in 1..(Len(text) - Len(kw) + 1) : SubSeq(text, i, i + Len(kw) - 1) = kw

(***************************************************************************)
(* utils/text_filters.py: filter_unwanted_phrases                          *)
(***************************************************************************)

\* Regular-expression elements: a literal character, an optional character
\* (c?) and a whitespace run (\s+).
Lit(c) == [kind |-> "lit", ch |-> c]
Opt(c) == [kind |-> "opt", ch |-> c]
Ws == [kind |-> "ws", ch |-> " "]
Word(w) == [i \in 1..Len(w) |-> Lit(w[i])]

unwanted_phrases ==
  <<
    \* thanks?\s+for\s+watching
    Word(<<"t","h","a","n","k">>) \o <<Opt("s")>> \o <<Ws>> \o Word(<<"f","o","r">>) \o <<Ws>> \o Word(<<"w","a","t","c","h","i","n","g">>),
    \* thank\s+you\s+for\s+watching
    Word(<<"t","h","a","n","k">>) \o <<Ws>> \o Word(<<"y","o","u">>) \o <<Ws>> \o Word(<<"f","o","r">>) \o <<Ws>> \o Word(<<"w","a","t","c","h","i","n","g">>),
    \* thanks?\s+for\s+listening
    Word(<<"t","h","a","n","k">>) \o <<Opt("s")>> \o <<Ws>> \o Word(<<"f","o","r">>) \o <<Ws>> \o Word(<<"l","i","s","t","e","n","i","n","g">>),
    \* thank\s+you\s+for\s+listening
    Word(<<"t","h","a","n","k">>) \o <<Ws>> \o Word(<<"y","o","u">>) \o <<Ws>> \o Word(<<"f","o","r">>) \o <<Ws>> \o Word(<<"l","i","s","t","e","n","i","n","g">>),
    \* see\s+you\s+next\s+time
    Word(<<"s","e","e">>) \o <<Ws>> \o Word(<<"y","o","u">>) \o <<Ws>> \o Word(<<"n","e","x","t">>) \o <<Ws>> \o Word(<<"t","i","m","e">>),
    \* until\s+next\s+time
    Word(<<"u","n","t","i","l">>) \o <<Ws>> \o Word(<<"n","e","x","t">>) \o <<Ws>> \o Word(<<"t","i","m","e">>),
    \* that'?s\s+all\s+for\s+now
    Word(<<"t","h","a","t">>) \o <<Opt("'")>> \o Word(<<"s">>) \o <<Ws>> \o Word(<<"a","l","l">>) \o <<Ws>> \o Word(<<"f","o","r">>) \o <<Ws>> \o Word(<<"n","o","w">>),
    \* that'?s\s+it\s+for\s+now
    Word(<<"t","h","a","t">>) \o <<Opt("'")>> \o Word(<<"s">>) \o <<Ws>> \o Word(<<"i","t">>) \o <<Ws>> \o Word(<<"f","o","r">>) \o <<Ws>> \o Word(<<"n","o","w">>),
    \* goodbye\s+for\s+now
    Word(<<"g","o","o","d","b","y","e">>) \o <<Ws>> \o Word(<<"f","o","r">>) \o <<Ws>> \o Word(<<"n","o","w">>),
    \* see\s+you\s+later
    Word(<<"s","e","e">>) \o <<Ws>> \o Word(<<"y","o","u">>) \o <<Ws>> \o Word(<<"l","a","t","e","r">>)
  >>

FallbackPrompt ==
  <<"H","o","w"," ","c","a","n"," ","I"," ","h","e","l","p"," ","y","o","u"," ","f","u","r","t","h","e","r","?">>

\* Number of whitespace characters of text starting at position i.
RECURSIVE WsRun(_, _)
WsRun(text, i) ==
  IF i <= Len(text) /\ IsSpace(text[i]) THEN 1 + WsRun(text, i + 1) ELSE 0

\* Position just after a match of pat[k..] at text[i..], 0 when there is none.
\* Quantifiers are greedy with backtracking, as in Python's re.
RECURSIVE MatchEnd(_, _, _, _)
RECURSIVE WsTry(_, _, _, _, _)
MatchEnd(pat, k, text, i) ==
  IF k > Len(pat) THEN i
  ELSE IF pat[k].kind = "lit" THEN
    IF i <= Len(text) /\ LowerChar(text[i]) = pat[k].ch
    THEN MatchEnd(pat, k + 1, text, i + 1) ELSE 0
  ELSE IF pat[k].kind = "opt" THEN
    LET taken == IF i <= Len(text) /\ LowerChar(text[i]) = pat[k].ch
                 THEN MatchEnd(pat, k + 1, text, i + 1) ELSE 0
    IN IF taken # 0 THEN taken ELSE MatchEnd(pat, k + 1, text, i)
  ELSE WsTry(pat, k, text, i, WsRun(text, i))

WsTry(pat, k, text, i, n) ==
  IF n = 0 THEN 0
  ELSE LET e == MatchEnd(pat, k + 1, text, i + n)
       IN IF e # 0 THEN e ELSE WsTry(pat, k, text, i, n - 1)

\* pattern.sub('', text): remove the non-overlapping matches, left to right.
RECURSIVE PatternSub(_, _, _)
PatternSub(pat, text, i) ==
  IF i > Len(text) THEN <<>>
  ELSE LET e == MatchEnd(pat, 1, text, i)
       IN IF e # 0 THEN PatternSub(pat, text, e)
          ELSE <<text[i]>> \o PatternSub(pat, text, i + 1)

\* The loop over unwanted_phrases: each pattern is applied to the result of
\* the previous one.
RECURSIVE RemovePhrases(_, _)
RemovePhrases(text, n) ==
  IF n = 0 THEN text
  ELSE PatternSub(unwanted_phrases[n], RemovePhrases(text, n - 1), 1)

\* re.sub(r'\s+', ' ', text)
RECURSIVE CollapseSpaces(_, _)
CollapseSpaces(text, i) ==
  IF i > Len(text) THEN <<>>
  ELSE IF IsSpace(text[i])
       THEN <<" ">> \o CollapseSpaces(text, i + WsRun(text, i))
       ELSE <<text[i]>> \o CollapseSpaces(text, i + 1)

filter_unwanted_phrases(text) ==
  IF text = <<>> THEN text
  ELSE LET filtered_text ==
             Strip(CollapseSpaces(RemovePhrases(text, Len(unwanted_phrases)), 1))
       IN IF filtered_text = <<>> \/ Len(filtered_text) < 3
          THEN FallbackPrompt
          ELSE filtered_text

(***************************************************************************)
(* services/emotion_service.py: EmotionService.analyze_emotion             *)
(***************************************************************************)

emotion_keywords ==
  <<
    [emotion |-> "happy", keywords |-> <<
        <<"h","a","p","p","y">>,
        <<"g","r","e","a","t">>,
        <<"e","x","c","e","l","l","e","n","t">>,
        <<"w","o","n","d","e","r","f","u","l">>,
        <<"a","m","a","z","i","n","g">>,
        <<"j","o","y">>,
        <<"d","e","l","i","g","h","t","e","d">>,
        <<"p","l","e","a","s","e","d">>,
        <<"s","m","i","l","e">>,
        <<"l","a","u","g","h">>,
        <<"c","h","e","e","r","f","u","l">> >>],
    [emotion |-> "sad", keywords |-> <<
        <<"s","a","d">>,
        <<"s","o","r","r","y">>,
        <<"u","n","f","o","r","t","u","n","a","t","e">>,
        <<"d","i","s","a","p","p","o","i","n","t","e","d">>,
        <<"r","e","g","r","e","t">>,
        <<"u","n","h","a","p","p","y">>,
        <<"d","e","p","r","e","s","s","e","d">>,
        <<"d","o","w","n">> >>],
    [emotion |-> "excited", keywords |-> <<
        <<"e","x","c","i","t","e","d">>,
        <<"t","h","r","i","l","l","e","d">>,
        <<"a","w","e","s","o","m","e">>,
        <<"f","a","n","t","a","s","t","i","c">>,
        <<"i","n","c","r","e","d","i","b","l","e">>,
        <<"w","o","w">>,
        <<"a","m","a","z","i","n","g">> >>],
    [emotion |-> "calm", keywords |-> <<
        <<"c","a","l","m">>,
        <<"p","e","a","c","e","f","u","l">>,
        <<"r","e","l","a","x","e","d">>,
        <<"s","e","r","e","n","e">>,
        <<"t","r","a","n","q","u","i","l">>,
        <<"q","u","i","e","t">> >>],
    [emotion |-> "concerned", keywords |-> <<
        <<"c","o","n","c","e","r","n">>,
        <<"w","o","r","r","y">>,
        <<"a","n","x","i","o","u","s">>,
        <<"t","r","o","u","b","l","e","d">>,
        <<"p","r","o","b","l","e","m">>,
        <<"i","s","s","u","e">> >>],
    [emotion |-> "friendly", keywords |-> <<
        <<"h","e","l","l","o">>,
        <<"h","i">>,
        <<"h","e","l","p">>,
        <<"a","s","s","i","s","t">>,
        <<"w","e","l","c","o","m","e">>,
        <<"g","l","a","d">>,
        <<"p","l","e","a","s","u","r","e">>,
        <<"n","a","m","a","s","t","e">> >>]
  >>

default_emotion == "friendly"

\* An intensity is a fraction <<numerator, denominator>> in lowest terms.
\* min(score / 3.0, 1.0)
Intensity(score) == IF score >= 3 THEN <<1, 1>> ELSE <<score, 3>>

\* sum(1 for keyword in keywords if keyword in text_lower)
EmotionScore(text_lower, keywords) ==
  Cardinality({j \in 1..Len(keywords) : Contains(text_lower, keywords[j])})

\* EmotionService.__init__: the state analyze_emotion reads
NewEmotionService ==
  [emotion_keywords |-> emotion_keywords, default_emotion |-> default_emotion]

\* Variant: among the categories with the highest score the last one wins.
DominantLastMax(score, scored) ==
  CHOOSE e \in scored :
    /\ \A f \in scored : score[f] <= score[e]
    /\ \A f \in scored : score[f] = score[e] => f <= e

\* max(emotion_scores, key=emotion_scores.get): emotion_scores holds the
\* categories that scored, in the order of the keyword table, and max
\* returns the first of the keys with the highest score.
Dominant(score, scored) ==
  CHOOSE e \in scored :
    /\ \A f \in scored : score[f] <= score[e]
    /\ \A f \in scored : score[f] = score[e] => e <= f

\* analyze_emotion on a service in the given state
AnalyzeEmotion(self, text) ==
  IF text = <<>> \/ Strip(text) = <<>>
  THEN [emotion |-> self.default_emotion, intensity |-> <<1, 2>>]
  ELSE
    LET text_lower == Lower(text)
        table == self.emotion_keywords
        score == [e \in 1..Len(table) |->
                    EmotionScore(text_lower, table[e].keywords)]
        scored == {e \in 1..Len(table) : score[e] > 0}
    IN IF scored # {}
       THEN LET dominant == Dominant(score, scored)
            IN [emotion |-> table[dominant].emotion,
                intensity |-> Intensity(score[dominant])]
       ELSE [emotion |-> self.default_emotion, intensity |-> <<1, 2>>]

\* Variant: the analysis keeps the emotion it found as the new default.
ServiceRemembersEmotion(self, text) ==
  [self EXCEPT !.default_emotion = AnalyzeEmotion(self, text).emotion]

\* The service after analyze_emotion: the method assigns no attribute.
ServiceAfterAnalysis(self, text) == self

\* analyze_emotion on the service as constructed
analyze_emotion(text) == AnalyzeEmotion(NewEmotionService, text)

(***************************************************************************)
(* Bounds and inputs of the model                                          *)
(***************************************************************************)

\* Number of text deltas the provider stream delivers in one run.
MaxDeltas == 2

\* silence threshold of speech_to_text, in bytes
MinAudioBytes == 3000

ThreadIds == {"thread_1"}
AssistantIds == {"asst_1"}

\* Greeting messages posted to /greeting (the route does not validate them).
GreetingMessages ==
  { <<"H","e","l","l","o"," ","t","h","e","r","e">>,
    <<" ">>,
    <<>> }

\* Messages posted to the text chat route (validated non-empty, stripped).
TextMessages == { <<"h","i">> }

\* Sizes of the uploaded audio, below and at the silence threshold.
AudioSizes == {2000, 3000}

\* Raw transcripts the transcription provider may return.
Transcripts ==
  { <<>>,
    <<" ">>,
    <<"o","k">>,
    <<" ","o","k"," ">>,
    <<"y","e","s">>,
    <<"h","e","l","l","o">> }

\* Text deltas the provider stream may deliver.
Deltas ==
  { <<"H","i"," ","t","h","e","r","e",".">>,
    <<"O","k",".">>,
    <<" ","y","e","s">>,
    <<"G","o","o","d","\n">>,
    <<"S","e","e"," ","y","o","u"," ","l","a","t","e","r","!">> }

\* Base64 audio returned by text_to_speech: some audio, or the encoding of
\* an empty response body.
AudioData == {"b64", ""}

(***************************************************************************)
(* Wire events (the JSON objects of the SSE stream)                        *)
(***************************************************************************)

EvAssistantId(a) == [type |-> "assistant_id", assistant_id |-> a]
EvThreadId(t) == [type |-> "thread_id", thread_id |-> t]
EvInputText(t) == [type |-> "input_text", text |-> t]

\* Variant: the delta is trimmed before it is emitted.
EvTextTrimmed(d) == [type |-> "text", text |-> Strip(d)]

EvText(d) == [type |-> "text", text |-> d]

EvAudioChunk(a, s) == [type |-> "audio_chunk", audio |-> a, text |-> s]
\* Variant: the greeting summary reports the loop's chunk counter, which is
\* still 0 in a greeting, as its total.
EvGreetingDoneCounted(n) == [type |-> "done", total_chunks |-> 0, audio_chunks |-> n]

EvGreetingDone(n) == [type |-> "done", total_chunks |-> 1, audio_chunks |-> n]
EvDone(t, a, e, f) ==
  [type |-> "done", thread_id |-> t, assistant_id |-> a, emotion |-> e,
   full_text |-> f]

\* utils/logging_utils.py: the error chunk built from an exception
log_stream_error(error_type, message) ==
  [type |-> "error", error |-> message, error_type |-> error_type,
   error_id |-> "id"]

\* the error chunk of the audio route for an unusable transcription
InsufficientTextChunk ==
  [type |-> "error", error |-> "No speech detected or text too short"]

\* the error chunks yielded by chat_with_assistant_stream
StreamErrorChunks ==
  { [type |-> "error", error |-> "Assistant run failed"],
    [type |-> "error", error |-> "str(e)"] }

\* the fallback of the emotion stage
NeutralEmotion == [emotion |-> "neutral", intensity |-> <<1, 2>>]

(***************************************************************************)
(* Decisions of the code                                                   *)
(***************************************************************************)

\* Variant: the length test is off by one (<= 3).
InsufficientTextOffByOne(text) == text = <<>> \/ Len(Strip(text)) <= 3

\* audio_routes.py: `not user_input or len(user_input.strip()) < 3`
InsufficientText(text) == text = <<>> \/ Len(Strip(text)) < 3

\* streaming_utils.py: any(sentence_buffer.rstrip().endswith(p) for p in [...])
SentenceTerminators == {".", "!", "?", "\n"}

EndsWithTerminator(buffer) ==
  \E p \in SentenceTerminators : EndsWith(RStrip(buffer), p)

\* Variant: audio of exactly the threshold size is silence too.
TooSmallInclusive(size) == size <= MinAudioBytes

\* audio_service.py: `if audio_size < 3000`
TooSmall(size) == size < MinAudioBytes
\* Variant: the length test is off by one (>= 3).
SpeakableOffByOne(sentence) == Len(sentence) >= 3

\* streaming_utils.py: `if len(sentence) > 3`
Speakable(sentence) == Len(sentence) > 3

\* Variant: the buffer is not reset after a flush.
BufferKeptAfterFlush(buffer) == buffer

\* streaming_utils.py: `sentence_buffer = ""` after a flush
BufferAfterFlush(buffer) == <<>>

\* audio_service.py: text_to_speech rejects empty text before calling the
\* provider
TtsRejects(text) == text = <<>> \/ Strip(text) = <<>>

\* Variant: the greeting text is streamed before the thread id is sent.
NextPcTextFirst(at, greeting) ==
  CASE at = "assistant_id" -> IF greeting THEN "greeting_text" ELSE "thread_id"
    [] at = "greeting_text" -> "thread_id"
    [] at = "thread_id" -> IF greeting THEN "greeting_tts" ELSE "stream_thread_id"
    [] at = "greeting_tts" -> "greeting_done"
    [] at = "greeting_done" -> "finished"
    [] OTHER -> "finished"

\* Variant: the greeting branch lacks its `return` and falls through to the
\* provider loop.
NextPcNoReturn(at, greeting) ==
  CASE at = "assistant_id" -> "thread_id"
    [] at = "thread_id" -> IF greeting THEN "greeting_text" ELSE "stream_thread_id"
    [] at = "greeting_text" -> "greeting_tts"
    [] at = "greeting_tts" -> "greeting_done"
    [] at = "greeting_done" -> "stream_thread_id"
    [] OTHER -> "finished"

\* The order of the statements of generate_streaming_response up to the
\* provider loop: the position reached after the one at pc.
NextPc(at, greeting) ==
  CASE at = "assistant_id" -> "thread_id"
    [] at = "thread_id" -> IF greeting THEN "greeting_text" ELSE "stream_thread_id"
    [] at = "greeting_text" -> "greeting_tts"
    [] at = "greeting_tts" -> "greeting_done"
    [] at = "greeting_done" -> "finished"
    [] OTHER -> "finished"

(***************************************************************************)
(* State                                                                   *)
(***************************************************************************)

VARIABLES
  mode,                 \* "greeting", "text" or "audio": the route of the run
  pc,                   \* position of the run's generator
  events,               \* the events yielded so far, in order
  audio_size,           \* len(audio_bytes) of an audio request
  user_input,           \* greeting message, chat message or transcription
  thread_id,            \* resolved thread id passed to the generator
  assistant_id,         \* resolved assistant id passed to the generator
  service_assistant_id, \* AssistantService().assistant_id
  accumulated_text,
  current_thread_id,
  chunk_count,
  sentence_buffer,
  audio_chunk_count,
  deltas_seen,          \* text deltas delivered by the provider stream
  segments,             \* history: what each buffer reset took out
  emotion_stage,        \* history: outcome of the emotion stage
  provider_calls        \* history: calls made to the external provider

\* State of the context resolution that precedes a run
\* (AssistantService.prepare_conversation) and of the provider it talks to.
VARIABLES
  raw_assistant_id,     \* assistant id the caller supplied, "" for None
  raw_thread_id,        \* thread id the caller supplied, "" for None
  force_new_thread,     \* the force_new_thread argument
  provider_assistants,  \* assistants at the provider, in listing order
  provider_threads,     \* threads alive at the provider
  rpc,                  \* position inside prepare_conversation
  candidate_index,      \* position of the loop over candidate_ids
  thread_created,       \* the thread_created result
  cache_at_call,        \* history: AssistantService().assistant_id at the call
  first_call            \* history: what the call before this one returned

resolution ==
  << raw_assistant_id, raw_thread_id, force_new_thread, provider_assistants,
     provider_threads, rpc, candidate_index, thread_created, cache_at_call,
     first_call >>

\* prepare_conversation has not been called before.
NoEarlierCall ==
  [returned |-> FALSE, assistant_id |-> "", thread_id |-> "", calls |-> 0]

\* State of a call of AudioService.speech_to_text.
VARIABLES
  openai_api_key,       \* AudioService().openai_api_key, "" when not set
  stt_pc,               \* position inside speech_to_text
  stt_result            \* what speech_to_text returned or raised

transcription == << openai_api_key, stt_pc, stt_result >>

\* Nothing returned and nothing raised yet.
NoResult == [outcome |-> "none"]

\* speech_to_text is not being called; the key is configured.
TranscriptionIdle ==
  /\ openai_api_key = "sk-key"
  /\ stt_pc = "idle"
  /\ stt_result = NoResult

\* State of an application of filter_unwanted_phrases.
VARIABLES
  filter_pc,            \* how often the filter has been applied
  filter_input,         \* the text given to the filter
  filter_output,        \* the filter's result for filter_input
  filter_again          \* the filter's result for filter_output

filtering == << filter_pc, filter_input, filter_output, filter_again >>

\* The filter is not being applied.
FilterIdle ==
  /\ filter_pc = "idle"
  /\ filter_input = <<>>
  /\ filter_output = <<>>
  /\ filter_again = <<>>
\* State of the shared EmotionService and the calls made on it.
VARIABLES
  emotion_service,      \* the singleton's emotion_keywords and default_emotion
  emotion_calls         \* history: text and result of each analyze_emotion

emotions == << emotion_service, emotion_calls >>

\* The classifier has been constructed and not been called.
EmotionIdle ==
  /\ emotion_service = NewEmotionService
  /\ emotion_calls = <<>>

\* State of the wake-word detector and of a request to it.
VARIABLES
  wakeword_model,       \* WAKEWORD_MODEL: "loaded", or "none" for None
  ffmpeg_path,          \* FFMPEG_PATH, "" when no ffmpeg was found
  wakeword_threshold,   \* WAKEWORD_THRESHOLD, in hundredths
  wake_pc,              \* position inside detect_wake_word
  wake_audio,           \* len of the uploaded audio, -1 without an upload
  wake_pcm,             \* samples decoded, -1 for None
  wake_score,           \* hundredths the model predicted for "hey_rhasspy"
  wake_calls,           \* history: decoder and model invocations
  wake_response,        \* the JSON answer
  wake_import,          \* history: how the import of wakeword_utils went
  wake_loads,           \* history: attempts to construct the model
  wake_served           \* history: wake-word requests received so far

wakeword ==
  << wakeword_model, ffmpeg_path, wakeword_threshold, wake_pc, wake_audio,
     wake_pcm, wake_score, wake_calls, wake_response, wake_import,
     wake_loads, wake_served >>

\* No request is at the detector.
WakewordIdle ==
  /\ wakeword_model = "none"
  /\ ffmpeg_path = ""
  /\ wakeword_threshold = 50
  /\ wake_pc = "idle"
  /\ wake_audio = -1
  /\ wake_pcm = -1
  /\ wake_score = 0
  /\ wake_calls = <<>>
  /\ wake_response = [status |-> 0]
  /\ wake_import = "failed"
  /\ wake_loads = 1
  /\ wake_served = 0

\* State of a second run of generate_streaming_response, of another request,
\* that is served while the first one runs: its locals, and what it asked of
\* the provider and put on its own wire.
VARIABLES
  peer_pc,                \* position of the second run
  peer_received,          \* history: the deltas the second run received
  peer_accumulated_text,  \* its accumulated_text
  peer_sentence_buffer,   \* its sentence_buffer
  peer_opened,            \* history: the ids it opened its stream with
  peer_done               \* history: its done event

peer ==
  << peer_pc, peer_received, peer_accumulated_text, peer_sentence_buffer,
     peer_opened, peer_done >>

\* Nothing opened, nothing emitted.
Nothing == [type |-> "none"]

\* There is no second run.
PeerIdle ==
  /\ peer_pc = "idle"
  /\ peer_received = <<>>
  /\ peer_accumulated_text = <<>>
  /\ peer_sentence_buffer = <<>>
  /\ peer_opened = Nothing
  /\ peer_done = Nothing

\* Threads of the server that construct a service for a request.
MaxThreads == 2

Threads == 1..MaxThreads

\* State of one singleton service class (AssistantService, AudioService and
\* EmotionService construct themselves the same way) and of the threads
\* that call its constructor.  Objects are numbered in the order of their
\* allocation, 0 stands for None.
VARIABLES
  cls_instance,         \* cls._instance
  initialized,          \* object -> its _initialized: "unset", "False", "True"
  ctor_pc,              \* thread -> its position in __new__ and __init__
  ctor_self,            \* thread -> the object __new__ returned to it
  init_runs             \* history: runs of the body of __init__

construction ==
  << cls_instance, initialized, ctor_pc, ctor_self, init_runs >>

\* The service was constructed before, by one thread; no constructor runs.
ConstructionIdle ==
  /\ cls_instance = 1
  /\ initialized = << "True" >>
  /\ ctor_pc = [t \in Threads |-> "idle"]
  /\ ctor_self = [t \in Threads |-> 0]
  /\ init_runs = 1

\* The parts of the program that are at rest while the parts named in
\* active run.
Outside(active) ==
  /\ IF "transcription" \in active THEN TRUE ELSE TranscriptionIdle
  /\ IF "filtering" \in active THEN TRUE ELSE FilterIdle
  /\ IF "emotions" \in active THEN TRUE ELSE EmotionIdle
  /\ IF "wakeword" \in active THEN TRUE ELSE WakewordIdle
  /\ IF "peer" \in active THEN TRUE ELSE PeerIdle
  /\ IF "construction" \in active THEN TRUE ELSE ConstructionIdle

\* State of the components that take no part in a conversation.
components ==
  << transcription, filtering, emotions, wakeword, peer, construction >>

\* Everything that is not state of a pipeline run.
elsewhere == << resolution, components >>

vars ==
  << mode, pc, events, audio_size, user_input, thread_id, assistant_id,
     service_assistant_id, accumulated_text, current_thread_id, chunk_count,
     sentence_buffer, audio_chunk_count, deltas_seen, segments,
     emotion_stage, provider_calls, elsewhere >>

is_greeting == mode = "greeting"

\* A call to the external provider and how it ended: "ok", "raised", or
\* "empty" for a synthesis that returned no audio.
Call(api, outcome) == [api |-> api, outcome |-> outcome]

\* Local state of generate_streaming_response and the histories.
locals ==
  << accumulated_text, current_thread_id, chunk_count, sentence_buffer,
     audio_chunk_count, deltas_seen, segments, emotion_stage >>

request == << mode, audio_size, thread_id, assistant_id >>

\* State of the conversation, which the other components do not touch.
conversation ==
  << mode, pc, events, user_input, thread_id, assistant_id,
     service_assistant_id, locals, resolution >>

\* What a call of speech_to_text leaves alone.
beside_transcription ==
  << conversation, filtering, emotions, wakeword, peer, construction >>

\* What the filter, the classifier and the detector leave alone.
beside_filtering ==
  << conversation, audio_size, provider_calls, transcription, emotions,
     wakeword, peer, construction >>

beside_emotions ==
  << conversation, audio_size, provider_calls, transcription, filtering,
     wakeword, peer, construction >>

beside_wakeword ==
  << conversation, audio_size, provider_calls, transcription, filtering,
     emotions, peer, construction >>

\* What a second run leaves alone: everything but its own state and the
\* assistant id kept by the AssistantService the two runs share.
beside_peer ==
  << mode, pc, events, user_input, thread_id, assistant_id, locals,
     resolution, audio_size, provider_calls, transcription, filtering,
     emotions, wakeword, construction >>

\* What the construction of a service leaves alone.
beside_construction ==
  << conversation, audio_size, provider_calls, transcription, filtering,
     emotions, wakeword, peer >>

\* The context of a run has been resolved: prepare_conversation returned the
\* ids the generator is started with (chat_routes.py, audio_routes.py).
Resolved ==
  /\ raw_assistant_id = assistant_id
  /\ raw_thread_id = IF is_greeting THEN "" ELSE thread_id
  /\ force_new_thread = is_greeting
  /\ provider_assistants = << assistant_id >>
  /\ provider_threads = { thread_id }
  /\ rpc = "returned"
  /\ candidate_index = 1
  /\ thread_created = is_greeting
  /\ cache_at_call = assistant_id
  /\ first_call = NoEarlierCall

Init ==
  /\ mode \in {"greeting", "text", "audio"}
  /\ thread_id \in ThreadIds
  /\ assistant_id \in AssistantIds
  /\ service_assistant_id = assistant_id
  /\ audio_size \in IF mode = "audio" THEN AudioSizes ELSE {0}
  /\ user_input \in CASE mode = "greeting" -> GreetingMessages
                      [] mode = "text" -> TextMessages
                      [] OTHER -> {<<>>}
  /\ pc = IF mode = "audio" THEN "stt" ELSE "assistant_id"
  /\ events = <<>>
  /\ accumulated_text = <<>>
  /\ current_thread_id = thread_id
  /\ chunk_count = 0
  /\ sentence_buffer = <<>>
  /\ audio_chunk_count = 0
  /\ deltas_seen = 0
  /\ segments = <<>>
  /\ emotion_stage = "none"
  /\ provider_calls = <<>>
  /\ Resolved
  /\ Outside({})

(***************************************************************************)
(* routes/audio_routes.py: stream_audio_chat, the transcription step       *)
(***************************************************************************)

\* What stream_audio_chat does with the outcome of speech_to_text: result is
\* the returned text, raised tells that speech_to_text raised.
AfterTranscription(result, raised) ==
  IF raised
  THEN /\ events' = Append(events, log_stream_error("Exception", "Speech-to-text error"))
       /\ pc' = "finished"
       /\ UNCHANGED user_input
  ELSE IF InsufficientText(result)
  THEN /\ events' = Append(events, InsufficientTextChunk)
       /\ pc' = "finished"
       /\ user_input' = result
  ELSE /\ events' = Append(events, EvInputText(result))
       /\ pc' = "assistant_id"
       /\ user_input' = result

\* Audio below the silence threshold: speech_to_text returns "" without
\* calling the transcription provider.
TranscribeSilence ==
  /\ pc = "stt"
  /\ TooSmall(audio_size)
  /\ AfterTranscription(<<>>, FALSE)
  /\ UNCHANGED << elsewhere, request, service_assistant_id, locals, provider_calls >>

\* speech_to_text calls the transcription provider and returns the trimmed
\* transcript.
TranscribeOk ==
  /\ pc = "stt"
  /\ ~TooSmall(audio_size)
  /\ \E transcript \in Transcripts : AfterTranscription(Strip(transcript), FALSE)
  /\ provider_calls' = Append(provider_calls, Call("audio.transcriptions.create", "ok"))
  /\ UNCHANGED << elsewhere, request, service_assistant_id, locals >>

\* The transcription provider fails (rate limit, quota, any other error) and
\* speech_to_text raises.
TranscribeFails ==
  /\ pc = "stt"
  /\ ~TooSmall(audio_size)
  /\ AfterTranscription(<<>>, TRUE)
  /\ provider_calls' = Append(provider_calls, Call("audio.transcriptions.create", "raised"))
  /\ UNCHANGED << elsewhere, request, service_assistant_id, locals >>

(***************************************************************************)
(* utils/streaming_utils.py: generate_streaming_response, the start and    *)
(* the greeting branch                                                     *)
(***************************************************************************)

\* `if assistant_id:` set the service's assistant id and yield it.
YieldAssistantId ==
  /\ pc = "assistant_id"
  /\ IF assistant_id # ""
     THEN /\ service_assistant_id' = assistant_id
          /\ events' = Append(events, EvAssistantId(assistant_id))
     ELSE UNCHANGED << service_assistant_id, events >>
  /\ pc' = NextPc(pc, is_greeting)
  /\ UNCHANGED << elsewhere, request, user_input, locals, provider_calls >>

\* "Send thread_id immediately"
YieldThreadId ==
  /\ pc = "thread_id"
  /\ events' = IF thread_id # "" THEN Append(events, EvThreadId(thread_id)) ELSE events
  /\ pc' = NextPc(pc, is_greeting)
  /\ UNCHANGED << elsewhere, request, user_input, service_assistant_id, locals, provider_calls >>

\* Greeting: stream the greeting text.
GreetingText ==
  /\ pc = "greeting_text"
  /\ events' = Append(events, EvText(user_input))
  /\ accumulated_text' = user_input
  /\ pc' = NextPc(pc, is_greeting)
  /\ UNCHANGED << elsewhere, request, user_input, service_assistant_id, current_thread_id,
                  chunk_count, sentence_buffer, audio_chunk_count, deltas_seen,
                  segments, emotion_stage, provider_calls >>

\* Greeting: synthesis succeeds; the chunk is emitted when there is audio.
GreetingSpeechOk ==
  /\ pc = "greeting_tts"
  /\ ~TtsRejects(user_input)
  /\ \E audio_data \in AudioData :
       IF audio_data # ""
       THEN /\ audio_chunk_count' = audio_chunk_count + 1
            /\ events' = Append(events, EvAudioChunk(audio_data, user_input))
            /\ provider_calls' = Append(provider_calls, Call("audio.speech.create", "ok"))
       ELSE /\ UNCHANGED << audio_chunk_count, events >>
            /\ provider_calls' = Append(provider_calls, Call("audio.speech.create", "empty"))
  /\ pc' = NextPc(pc, is_greeting)
  /\ UNCHANGED << elsewhere, request, user_input, service_assistant_id, accumulated_text,
                  current_thread_id, chunk_count, sentence_buffer, deltas_seen,
                  segments, emotion_stage >>

\* Greeting: text_to_speech raises (empty text, or the provider fails); the
\* handler yields an error chunk and falls through to the done event.
GreetingSpeechFails ==
  /\ pc = "greeting_tts"
  /\ IF TtsRejects(user_input)
     THEN /\ events' = Append(events, log_stream_error("ValueError", "Text cannot be empty for text-to-speech"))
          /\ UNCHANGED provider_calls
     ELSE /\ events' = Append(events, log_stream_error("Exception", "Text-to-speech error"))
          /\ provider_calls' = Append(provider_calls, Call("audio.speech.create", "raised"))
  /\ pc' = NextPc(pc, is_greeting)
  /\ UNCHANGED << elsewhere, request, user_input, service_assistant_id, locals >>

\* Greeting: "Send done event", then return.
GreetingDone ==
  /\ pc = "greeting_done"
  /\ events' = Append(events, EvGreetingDone(audio_chunk_count))
  /\ pc' = NextPc(pc, is_greeting)
  /\ UNCHANGED << elsewhere, request, user_input, service_assistant_id, locals, provider_calls >>

(***************************************************************************)
(* services/assistant_service.py: chat_with_assistant_stream, consumed by  *)
(* the provider loop of generate_streaming_response                        *)
(***************************************************************************)

\* Variant: the stream generator always works on a thread of its own.
StreamThreadAlwaysNew(tid) == "thread_new"

\* `if not thread_id: thread_id = self.create_thread()`: the thread the
\* stream generator works on.
StreamThread(tid) == IF tid # "" THEN tid ELSE "thread_new"

\* The stream generator creates a thread when none is given and yields the
\* thread id first; the loop records and forwards it.
StreamThreadId ==
  /\ pc = "stream_thread_id"
  /\ LET stream_thread == StreamThread(thread_id)
     IN /\ current_thread_id' = stream_thread
        /\ events' = Append(events, EvThreadId(stream_thread))
  /\ provider_calls' = IF thread_id # "" THEN provider_calls
                       ELSE Append(provider_calls, Call("threads.create", "ok"))
  /\ chunk_count' = chunk_count + 1
  /\ pc' = "stream_open"
  /\ UNCHANGED << elsewhere, request, user_input, service_assistant_id, accumulated_text,
                  sentence_buffer, audio_chunk_count, deltas_seen, segments,
                  emotion_stage >>

\* add_message_to_thread raises: the exception leaves the stream generator
\* and is reported by the handler around the loop.
AddMessageFails ==
  /\ pc = "stream_open"
  /\ provider_calls' = Append(provider_calls, Call("threads.messages.create", "raised"))
  /\ events' = Append(events, log_stream_error("Exception", "str(e)"))
  /\ pc' = "finished"
  /\ UNCHANGED << elsewhere, request, user_input, service_assistant_id, locals >>

\* Variant: the id kept by the service is preferred to the one passed in.
StreamAssistantIdCached(aid, cached) == IF cached # "" THEN cached ELSE aid

\* `current_assistant_id = assistant_id or self.assistant_id`
StreamAssistantId(aid, cached) == IF aid # "" THEN aid ELSE cached

\* The arguments of `self.client.beta.threads.runs.stream(...)`.
StreamIds(tid, aid) == [thread_id |-> tid, assistant_id |-> aid]

\* The message is added and the streaming run is opened for the assistant
\* id of the request (or the service's one).
OpenStream ==
  /\ pc = "stream_open"
  /\ StreamAssistantId(assistant_id, service_assistant_id) # ""
  /\ provider_calls' = provider_calls \o
       << Call("threads.messages.create", "ok"),
          [api |-> "threads.runs.stream",
           arg |-> StreamIds(current_thread_id,
                             StreamAssistantId(assistant_id, service_assistant_id)),
           outcome |-> "ok"] >>
  /\ pc' = "streaming"
  /\ UNCHANGED << elsewhere, request, user_input, service_assistant_id, events, locals >>

\* Opening the streaming run raises: the stream generator yields an error
\* chunk, which the loop forwards before it breaks.
OpenStreamFails ==
  /\ pc = "stream_open"
  /\ StreamAssistantId(assistant_id, service_assistant_id) # ""
  /\ provider_calls' = provider_calls \o
       << Call("threads.messages.create", "ok"),
          [api |-> "threads.runs.stream",
           arg |-> StreamIds(current_thread_id,
                             StreamAssistantId(assistant_id, service_assistant_id)),
           outcome |-> "raised"] >>
  /\ events' = Append(events, [type |-> "error", error |-> "str(e)"])
  /\ chunk_count' = chunk_count + 1
  /\ pc' = "finished"
  /\ UNCHANGED << elsewhere, request, user_input, service_assistant_id, accumulated_text,
                  current_thread_id, sentence_buffer, audio_chunk_count,
                  deltas_seen, segments, emotion_stage >>

\* thread.message.delta: a text chunk is accumulated, buffered and yielded.
TextDelta ==
  /\ pc = "streaming"
  /\ deltas_seen < MaxDeltas
  /\ \E text_delta \in Deltas :
       /\ accumulated_text' = accumulated_text \o text_delta
       /\ sentence_buffer' = sentence_buffer \o text_delta
       /\ events' = Append(events, EvText(text_delta))
  /\ chunk_count' = chunk_count + 1
  /\ deltas_seen' = deltas_seen + 1
  /\ pc' = "flush"
  /\ UNCHANGED << elsewhere, request, user_input, service_assistant_id, current_thread_id,
                  audio_chunk_count, segments, emotion_stage, provider_calls >>

\* thread.run.completed: the stream generator yields its done chunk; the
\* loop goes on to the tail of the sentence buffer.
RunCompleted ==
  /\ pc = "streaming"
  /\ chunk_count' = chunk_count + 1
  /\ pc' = "tail"
  /\ UNCHANGED << elsewhere, request, user_input, service_assistant_id, events,
                  accumulated_text, current_thread_id, sentence_buffer,
                  audio_chunk_count, deltas_seen, segments, emotion_stage,
                  provider_calls >>

\* Variant: the loop asks for the next chunk after an error chunk.
AfterErrorPcGoesOn == "streaming"

\* `break` after the error chunk was forwarded; the stream generator ended
\* with its error chunk as well.
AfterErrorPc == "finished"

\* thread.run.failed, or an exception while streaming: the stream generator
\* yields an error chunk, which the loop forwards before it breaks.
RunFailed ==
  /\ pc = "streaming"
  /\ \E chunk \in StreamErrorChunks : events' = Append(events, chunk)
  /\ chunk_count' = chunk_count + 1
  /\ pc' = AfterErrorPc
  /\ UNCHANGED << elsewhere, request, user_input, service_assistant_id, accumulated_text,
                  current_thread_id, sentence_buffer, audio_chunk_count,
                  deltas_seen, segments, emotion_stage, provider_calls >>

\* The provider stream ends with neither thread.run.completed nor
\* thread.run.failed (the run was cancelled, expired, incomplete or requires
\* an action: events the stream generator ignores): the generator returns
\* and the loop ends.
StreamEnds ==
  /\ pc = "streaming"
  /\ pc' = "finished"
  /\ UNCHANGED << elsewhere, request, user_input, service_assistant_id, events, locals,
                  provider_calls >>

(***************************************************************************)
(* generate_streaming_response: sentence flush and tail flush              *)
(***************************************************************************)

\* The sentence taken from the buffer, at a flush after a text delta
\* (pc = "flush") or at the tail flush on completion (pc = "tail").
sentence == Strip(sentence_buffer)

\* Variant: a sentence is taken out of the buffer only when it is spoken.
BufferIsTakenWhenSpoken ==
  IF pc = "flush"
  THEN EndsWithTerminator(sentence_buffer) /\ Speakable(Strip(sentence_buffer))
  ELSE TRUE

\* Whether the buffer is reset at this point.
BufferIsTaken ==
  IF pc = "flush" THEN EndsWithTerminator(sentence_buffer) ELSE TRUE

\* Variant: the remainder at the tail is spoken whatever its length.
SentenceIsSpokenAnyTail ==
  IF pc = "flush"
  THEN EndsWithTerminator(sentence_buffer) /\ Speakable(sentence)
  ELSE sentence # <<>>

\* Whether text_to_speech is called for the buffer at this point.
SentenceIsSpoken ==
  IF pc = "flush"
  THEN EndsWithTerminator(sentence_buffer) /\ Speakable(sentence)
  ELSE sentence # <<>> /\ Speakable(sentence)

\* Variant: after a flush the loop does not go back to the provider stream.
AfterFlushPcRepeats == IF pc = "flush" THEN "flush" ELSE "emotion"

\* Where the loop goes after the buffer was dealt with: back to the provider
\* stream for the next chunk, or on to the emotion stage.
AfterFlushPc == IF pc = "flush" THEN "streaming" ELSE "emotion"

\* History record of a buffer reset: the text taken out and its fate,
\* "spoken", "failed" (synthesis raised) or "skipped" (no synthesis).
Segment(fate) == [text |-> sentence_buffer, fate |-> fate]

\* Synthesis succeeds: the audio chunk is yielded with its sentence.
SynthesizeOk ==
  /\ pc \in {"flush", "tail"}
  /\ SentenceIsSpoken
  /\ \E audio_data \in AudioData :
       /\ events' = Append(events, EvAudioChunk(audio_data, sentence))
       /\ provider_calls' = Append(provider_calls,
            Call("audio.speech.create", IF audio_data # "" THEN "ok" ELSE "empty"))
  /\ audio_chunk_count' = audio_chunk_count + 1
  /\ sentence_buffer' = BufferAfterFlush(sentence_buffer)
  /\ segments' = Append(segments, Segment("spoken"))
  /\ pc' = AfterFlushPc
  /\ UNCHANGED << elsewhere, request, user_input, service_assistant_id, accumulated_text,
                  current_thread_id, chunk_count, deltas_seen, emotion_stage >>

\* Synthesis raises: logged and swallowed, the sentence is dropped.
SynthesizeFails ==
  /\ pc \in {"flush", "tail"}
  /\ SentenceIsSpoken
  /\ provider_calls' = Append(provider_calls, Call("audio.speech.create", "raised"))
  /\ sentence_buffer' = BufferAfterFlush(sentence_buffer)
  /\ segments' = Append(segments, Segment("failed"))
  /\ pc' = AfterFlushPc
  /\ UNCHANGED << elsewhere, request, user_input, service_assistant_id, events,
                  accumulated_text, current_thread_id, chunk_count,
                  audio_chunk_count, deltas_seen, emotion_stage >>

\* No synthesis: the buffer does not end a sentence yet (it is kept), or the
\* sentence is too short (it is dropped).
NoSynthesis ==
  /\ pc \in {"flush", "tail"}
  /\ ~SentenceIsSpoken
  /\ IF BufferIsTaken
     THEN /\ sentence_buffer' = BufferAfterFlush(sentence_buffer)
          /\ segments' = IF sentence_buffer # <<>>
                         THEN Append(segments, Segment("skipped")) ELSE segments
     ELSE UNCHANGED << sentence_buffer, segments >>
  /\ pc' = AfterFlushPc
  /\ UNCHANGED << elsewhere, request, user_input, service_assistant_id, events,
                  accumulated_text, current_thread_id, chunk_count,
                  audio_chunk_count, deltas_seen, emotion_stage,
                  provider_calls >>

(***************************************************************************)
(* generate_streaming_response: emotion stage and the done event           *)
(***************************************************************************)

\* Filtering and classification succeed.
EmotionOk ==
  /\ pc = "emotion"
  /\ LET filtered_text == filter_unwanted_phrases(accumulated_text)
         emotion == analyze_emotion(filtered_text)
     IN events' = Append(events,
          EvDone(current_thread_id, assistant_id, emotion, filtered_text))
  /\ emotion_stage' = "ok"
  /\ pc' = "after_done"
  /\ UNCHANGED << elsewhere, request, user_input, service_assistant_id, accumulated_text,
                  current_thread_id, chunk_count, sentence_buffer,
                  audio_chunk_count, deltas_seen, segments, provider_calls >>

\* analyze_emotion raises: the handler falls back to the neutral emotion.
EmotionFails ==
  /\ pc = "emotion"
  /\ LET filtered_text == filter_unwanted_phrases(accumulated_text)
     IN events' = Append(events,
          EvDone(current_thread_id, assistant_id, NeutralEmotion, filtered_text))
  /\ emotion_stage' = "classifier_raised"
  /\ pc' = "after_done"
  /\ UNCHANGED << elsewhere, request, user_input, service_assistant_id, accumulated_text,
                  current_thread_id, chunk_count, sentence_buffer,
                  audio_chunk_count, deltas_seen, segments, provider_calls >>

\* filter_unwanted_phrases raises: the handler falls back to the neutral
\* emotion, but filtered_text was never bound; building the done chunk
\* raises UnboundLocalError, which the handler around the loop reports.
FilterFails ==
  /\ pc = "emotion"
  /\ events' = Append(events,
       log_stream_error("UnboundLocalError", "local variable 'filtered_text' referenced before assignment"))
  /\ emotion_stage' = "filter_raised"
  /\ pc' = "finished"
  /\ UNCHANGED << elsewhere, request, user_input, service_assistant_id, accumulated_text,
                  current_thread_id, chunk_count, sentence_buffer,
                  audio_chunk_count, deltas_seen, segments, provider_calls >>

\* Variant: after its done chunk the stream generator goes on with the
\* provider stream.
AfterDonePcStreams == "streaming"

\* Variant: after its done chunk the stream generator goes on waiting for
\* provider events.
AfterDonePcWaits == "after_done"

\* `break` after `yield {"type": "done"}`: the stream generator returns and
\* the loop over its chunks ends.
AfterDonePc == "finished"

\* After the done event the loop asks for the next chunk; the stream
\* generator breaks out of the provider stream and returns, the loop ends.
StreamReturns ==
  /\ pc = "after_done"
  /\ pc' = AfterDonePc
  /\ UNCHANGED << elsewhere, request, user_input, service_assistant_id, events, locals,
                  provider_calls >>

Next ==
  \/ TranscribeSilence
  \/ TranscribeOk
  \/ TranscribeFails
  \/ YieldAssistantId
  \/ YieldThreadId
  \/ GreetingText
  \/ GreetingSpeechOk
  \/ GreetingSpeechFails
  \/ GreetingDone
  \/ StreamThreadId
  \/ AddMessageFails
  \/ OpenStream
  \/ OpenStreamFails
  \/ TextDelta
  \/ RunCompleted
  \/ RunFailed
  \/ StreamEnds
  \/ SynthesizeOk
  \/ SynthesizeFails
  \/ NoSynthesis
  \/ FilterFails
  \/ EmotionFails
  \/ EmotionOk
  \/ StreamReturns

Spec == Init /\ [][Next]_vars

\* The same runs with progress: every blocking call (transcription, the
\* provider's next chunk, synthesis) returns or raises, and the consumer of
\* the response keeps asking for the next event, so a step that can be taken
\* is taken.
FairSpec == Init /\ [][Next]_vars /\ WF_vars(Next)

(***************************************************************************)
(* services/assistant_service.py: ensure_assistant_id and                  *)
(* prepare_conversation, one action per provider call and per branch       *)
(***************************************************************************)

Range(seq) == {seq[i] : i \in 1..Len(seq)}

\* Ids the provider gives to a newly created assistant and thread: never one
\* it has given before.
NewAssistantId ==
  IF "asst_new" \in Range(provider_assistants) THEN "asst_newer" ELSE "asst_new"

NewThreadId ==
  IF "thread_new" \in provider_threads THEN "thread_newer" ELSE "thread_new"

\* What a caller may pass and what the provider may hold; "" stands for None.
RawAssistantIds == {"", "asst_1", "asst_2"}
RawThreadIds == {"", "thread_1", "thread_2", "1234"}
CachedAssistantIds == {"", "asst_1", "asst_2"}
ProviderAssistants == { <<>>, <<"asst_1">>, <<"asst_2", "asst_1">> }
ProviderThreads == { {}, {"thread_1"} }

\* A provider call on one object (an id, or the limit of a listing).
CallOn(api, arg, outcome) == [api |-> api, arg |-> arg, outcome |-> outcome]

\* Variant: the id of a thread the provider has just created does not pass.
StartsWithThreadGiven(tid) == tid \in {"thread_1", "thread_2"}

\* thread_id.startswith("thread_"), over the thread ids of the model
StartsWithThread(tid) ==
  tid \in {"thread_1", "thread_2", "thread_new", "thread_newer"}

\* Variant: the cached id is tried before the caller's.
candidate_ids_cached_first == << cache_at_call, raw_assistant_id >>

\* candidate_ids = [assistant_id, getattr(self, "assistant_id", None)]
candidate_ids == << raw_assistant_id, cache_at_call >>

candidate == candidate_ids[candidate_index]

\* State the resolution does not touch: that of a pipeline run and of the
\* other components.
run == << mode, pc, events, audio_size, user_input, locals, components >>

\* Arguments of the call, the cache as the call found it and the result of
\* the call before it.
call_args ==
  << raw_assistant_id, raw_thread_id, force_new_thread, cache_at_call,
     first_call >>

\* The loop moves to the next candidate, or past the loop to the listing.
NextCandidate ==
  IF candidate_index < Len(candidate_ids)
  THEN /\ candidate_index' = candidate_index + 1
       /\ rpc' = "candidate"
  ELSE /\ candidate_index' = candidate_index
       /\ rpc' = "list"

\* Variant: the service keeps the assistant id it had.
AssistantIdKept(resolved, cached) == cached

\* `self.assistant_id = candidate`, `self.assistant_id = assistants[0]["id"]`
\* and `self.assistant_id = created["id"]`: the service's assistant id once
\* a step has resolved one.
AssistantIdCached(resolved, cached) == resolved

\* `if not candidate: continue`
SkipCandidate ==
  /\ rpc = "candidate"
  /\ candidate = ""
  /\ NextCandidate
  /\ UNCHANGED << run, call_args, thread_id, assistant_id,
                  service_assistant_id, provider_assistants,
                  provider_threads, thread_created, provider_calls >>

\* get_assistant(candidate) succeeds: the candidate is cached and returned.
RetrieveOk ==
  /\ rpc = "candidate"
  /\ candidate # ""
  /\ candidate \in Range(provider_assistants)
  /\ provider_calls' =
       Append(provider_calls, CallOn("assistants.retrieve", candidate, "ok"))
  /\ service_assistant_id' =
       AssistantIdCached(candidate, service_assistant_id)
  /\ assistant_id' = candidate
  /\ rpc' = "thread"
  /\ UNCHANGED << run, call_args, thread_id, provider_assistants,
                  provider_threads, candidate_index, thread_created >>

\* get_assistant(candidate) raises (unknown id, or the provider is out of
\* reach): the exception is logged and the loop goes on.
RetrieveFails ==
  /\ rpc = "candidate"
  /\ candidate # ""
  /\ provider_calls' =
       Append(provider_calls, CallOn("assistants.retrieve", candidate, "raised"))
  /\ NextCandidate
  /\ UNCHANGED << run, call_args, thread_id, assistant_id,
                  service_assistant_id, provider_assistants,
                  provider_threads, thread_created >>

\* list_assistants(limit=1) returns an assistant: its id is cached and
\* returned.
ListOk ==
  /\ rpc = "list"
  /\ provider_assistants # <<>>
  /\ provider_calls' =
       Append(provider_calls, CallOn("assistants.list", "limit=1", "ok"))
  /\ service_assistant_id' =
       AssistantIdCached(Head(provider_assistants), service_assistant_id)
  /\ assistant_id' = Head(provider_assistants)
  /\ rpc' = "thread"
  /\ UNCHANGED << run, call_args, thread_id, provider_assistants,
                  provider_threads, candidate_index, thread_created >>

\* list_assistants(limit=1) returns no assistant.
ListEmpty ==
  /\ rpc = "list"
  /\ provider_assistants = <<>>
  /\ provider_calls' =
       Append(provider_calls, CallOn("assistants.list", "limit=1", "empty"))
  /\ rpc' = "create"
  /\ UNCHANGED << run, call_args, thread_id, assistant_id,
                  service_assistant_id, provider_assistants,
                  provider_threads, candidate_index, thread_created >>

\* list_assistants(limit=1) raises: logged, creation follows.
ListFails ==
  /\ rpc = "list"
  /\ provider_calls' =
       Append(provider_calls, CallOn("assistants.list", "limit=1", "raised"))
  /\ rpc' = "create"
  /\ UNCHANGED << run, call_args, thread_id, assistant_id,
                  service_assistant_id, provider_assistants,
                  provider_threads, candidate_index, thread_created >>

\* create_assistant() succeeds: the new id is cached and returned.
CreateAssistantOk ==
  /\ rpc = "create"
  /\ provider_calls' =
       Append(provider_calls,
              CallOn("assistants.create", NewAssistantId, "ok"))
  /\ provider_assistants' = << NewAssistantId >> \o provider_assistants
  /\ service_assistant_id' =
       AssistantIdCached(NewAssistantId, service_assistant_id)
  /\ assistant_id' = NewAssistantId
  /\ rpc' = "thread"
  /\ UNCHANGED << run, call_args, thread_id, provider_threads,
                  candidate_index, thread_created >>

\* create_assistant() raises: ensure_assistant_id and prepare_conversation
\* raise with it.
CreateAssistantFails ==
  /\ rpc = "create"
  /\ provider_calls' =
       Append(provider_calls,
              CallOn("assistants.create", NewAssistantId, "raised"))
  /\ rpc' = "raised"
  /\ UNCHANGED << run, call_args, thread_id, assistant_id,
                  service_assistant_id, provider_assistants,
                  provider_threads, candidate_index, thread_created >>

\* Variant: the candidate is looked up whether or not a new thread is forced.
VerifiesCandidateForced ==
  /\ raw_thread_id # ""
  /\ StartsWithThread(raw_thread_id)

\* `if thread_id and not force_new_thread:` with the shape test inside it:
\* the candidate thread is looked up at the provider.
VerifiesCandidate ==
  /\ raw_thread_id # ""
  /\ ~force_new_thread
  /\ StartsWithThread(raw_thread_id)

\* get_thread_messages(thread_id, limit=1) succeeds: the candidate is kept.
VerifyThreadOk ==
  /\ rpc = "thread"
  /\ VerifiesCandidate
  /\ raw_thread_id \in provider_threads
  /\ provider_calls' =
       Append(provider_calls,
              CallOn("threads.messages.list", raw_thread_id, "ok"))
  /\ thread_id' = raw_thread_id
  /\ rpc' = "decide"
  /\ UNCHANGED << run, call_args, assistant_id, service_assistant_id,
                  provider_assistants, provider_threads, candidate_index,
                  thread_created >>

\* get_thread_messages(thread_id, limit=1) raises: logged, no thread kept.
VerifyThreadFails ==
  /\ rpc = "thread"
  /\ VerifiesCandidate
  /\ provider_calls' =
       Append(provider_calls,
              CallOn("threads.messages.list", raw_thread_id, "raised"))
  /\ rpc' = "decide"
  /\ UNCHANGED << run, call_args, thread_id, assistant_id,
                  service_assistant_id, provider_assistants,
                  provider_threads, candidate_index, thread_created >>

\* No candidate, a forced new thread, or an id of another shape: the provider
\* is not asked.
NoVerification ==
  /\ rpc = "thread"
  /\ ~VerifiesCandidate
  /\ rpc' = "decide"
  /\ UNCHANGED << run, call_args, thread_id, assistant_id,
                  service_assistant_id, provider_assistants,
                  provider_threads, candidate_index, thread_created,
                  provider_calls >>

\* Variant: a new thread is created only when it is forced.
NeedsNewThreadOnlyForced == force_new_thread

\* `if force_new_thread or not resolved_thread_id:`
NeedsNewThread == force_new_thread \/ thread_id = ""

\* create_thread() succeeds.
CreateThreadOk ==
  /\ rpc = "decide"
  /\ NeedsNewThread
  /\ provider_calls' =
       Append(provider_calls, CallOn("threads.create", NewThreadId, "ok"))
  /\ provider_threads' = provider_threads \cup { NewThreadId }
  /\ thread_id' = NewThreadId
  /\ thread_created' = TRUE
  /\ rpc' = "returned"
  /\ UNCHANGED << run, call_args, assistant_id, service_assistant_id,
                  provider_assistants, candidate_index >>

\* create_thread() raises: prepare_conversation raises with it.
CreateThreadFails ==
  /\ rpc = "decide"
  /\ NeedsNewThread
  /\ provider_calls' =
       Append(provider_calls, CallOn("threads.create", NewThreadId, "raised"))
  /\ rpc' = "raised"
  /\ UNCHANGED << run, call_args, thread_id, assistant_id,
                  service_assistant_id, provider_assistants,
                  provider_threads, candidate_index, thread_created >>

\* `return resolved_assistant_id, resolved_thread_id, thread_created` with
\* the candidate thread.
ReturnContext ==
  /\ rpc = "decide"
  /\ ~NeedsNewThread
  /\ rpc' = "returned"
  /\ UNCHANGED << run, call_args, thread_id, assistant_id,
                  service_assistant_id, provider_assistants,
                  provider_threads, candidate_index, thread_created,
                  provider_calls >>

\* No generator has been started.
Unstarted ==
  /\ pc = "unstarted"
  /\ events = <<>>
  /\ user_input = <<>>
  /\ accumulated_text = <<>>
  /\ current_thread_id = ""
  /\ chunk_count = 0
  /\ sentence_buffer = <<>>
  /\ audio_chunk_count = 0
  /\ deltas_seen = 0
  /\ segments = <<>>
  /\ emotion_stage = "none"
  /\ provider_calls = <<>>

\* prepare_conversation is entered: nothing is resolved yet.
Entered ==
  /\ first_call = NoEarlierCall
  /\ cache_at_call = service_assistant_id
  /\ rpc = "candidate"
  /\ candidate_index = 1
  /\ assistant_id = ""
  /\ thread_id = ""
  /\ thread_created = FALSE

\* A call of prepare_conversation with any arguments, on any cache and
\* provider.
ResolveInit ==
  /\ mode = "text"
  /\ audio_size = 0
  /\ Unstarted
  /\ raw_assistant_id \in RawAssistantIds
  /\ raw_thread_id \in RawThreadIds
  /\ force_new_thread \in BOOLEAN
  /\ service_assistant_id \in CachedAssistantIds
  /\ provider_assistants \in ProviderAssistants
  /\ provider_threads \in ProviderThreads
  /\ Entered
  /\ Outside({})

ResolveNext ==
  \/ SkipCandidate
  \/ RetrieveOk
  \/ RetrieveFails
  \/ ListOk
  \/ ListEmpty
  \/ ListFails
  \/ CreateAssistantOk
  \/ CreateAssistantFails
  \/ VerifyThreadOk
  \/ VerifyThreadFails
  \/ NoVerification
  \/ CreateThreadOk
  \/ CreateThreadFails
  \/ ReturnContext

ResolveSpec == ResolveInit /\ [][ResolveNext]_vars

(***************************************************************************)
(* A second call of prepare_conversation on the same AssistantService and  *)
(* the same provider, with the ids the first call returned                 *)
(* (chat_routes.py and audio_routes.py call it once per request, with the  *)
(* ids the client kept from the done event of the request before)          *)
(***************************************************************************)

\* prepare_conversation(assistant_id, thread_id) is called again with what
\* it returned and the default force_new_thread=False; the cache is what the
\* first call left and the provider holds what it held when that call
\* returned.
CallAgain ==
  /\ rpc = "returned"
  /\ ~first_call.returned
  /\ first_call' = [returned |-> TRUE, assistant_id |-> assistant_id,
                    thread_id |-> thread_id, calls |-> Len(provider_calls)]
  /\ raw_assistant_id' = assistant_id
  /\ raw_thread_id' = thread_id
  /\ force_new_thread' = FALSE
  /\ cache_at_call' = service_assistant_id
  /\ rpc' = "candidate"
  /\ candidate_index' = 1
  /\ assistant_id' = ""
  /\ thread_id' = ""
  /\ thread_created' = FALSE
  /\ UNCHANGED << run, service_assistant_id, provider_assistants,
                  provider_threads, provider_calls >>

ResolveTwiceNext ==
  \/ ResolveNext
  \/ CallAgain

ResolveTwiceSpec == ResolveInit /\ [][ResolveTwiceNext]_vars

(***************************************************************************)
(* routes/audio_routes.py: process_audio_chat, from the validated request  *)
(* to the end of its event stream                                          *)
(***************************************************************************)

\* Requests and provider states of the audio route.
RouteAssistantIds == {"asst_1"}
RouteThreadIds == {"", "thread_1"}
RouteProviderAssistants == { <<>>, <<"asst_1">> }

\* validate_audio_request has accepted the request; prepare_conversation is
\* called with the ids of the form and the default force_new_thread.
AudioRouteInit ==
  /\ mode = "audio"
  /\ audio_size \in AudioSizes
  /\ Unstarted
  /\ raw_assistant_id \in RouteAssistantIds
  /\ raw_thread_id \in RouteThreadIds
  /\ force_new_thread = FALSE
  /\ service_assistant_id = ""
  /\ provider_assistants \in RouteProviderAssistants
  /\ provider_threads = {"thread_1"}
  /\ Entered
  /\ Outside({})

\* `return Response(stream_audio_chat(), ...)`: the generator starts with the
\* resolved ids.
StartStream ==
  /\ rpc = "returned"
  /\ pc = "unstarted"
  /\ pc' = "stt"
  /\ current_thread_id' = thread_id
  /\ UNCHANGED << elsewhere, request, events, user_input,
                  service_assistant_id, accumulated_text, chunk_count,
                  sentence_buffer, audio_chunk_count, deltas_seen, segments,
                  emotion_stage, provider_calls >>

\* prepare_conversation raised: `return handle_error(...)`, a JSON error
\* response and no event stream.
RouteError ==
  /\ rpc = "raised"
  /\ pc = "unstarted"
  /\ pc' = "refused"
  /\ UNCHANGED << elsewhere, request, events, user_input,
                  service_assistant_id, locals, provider_calls >>

AudioRouteNext ==
  \/ ResolveNext
  \/ StartStream
  \/ RouteError
  \/ TranscribeSilence
  \/ TranscribeOk
  \/ TranscribeFails
  \/ YieldAssistantId
  \/ YieldThreadId
  \/ StreamThreadId
  \/ AddMessageFails
  \/ OpenStream
  \/ OpenStreamFails
  \/ TextDelta
  \/ RunCompleted
  \/ RunFailed
  \/ StreamEnds
  \/ SynthesizeOk
  \/ SynthesizeFails
  \/ NoSynthesis
  \/ EmotionOk
  \/ EmotionFails
  \/ FilterFails
  \/ StreamReturns

AudioRouteSpec == AudioRouteInit /\ [][AudioRouteNext]_vars

(***************************************************************************)
(* Two requests served at the same time: two runs of                       *)
(* generate_streaming_response on the one AssistantService (a singleton,   *)
(* assistant_service.py:18-34).  The first run is the text run of Spec;    *)
(* of the second one the steps are kept that read or write the assistant   *)
(* id of the service, its own ids and its own text.                        *)
(***************************************************************************)

\* Deltas the second run may receive before it completes.
MaxPeerDeltas == 1

\* The context the second request was resolved to.
PeerAssistantId == "asst_2"
PeerThreadId == "thread_2"

\* Text deltas the provider streams to the first run while a second one is
\* served: one that ends a sentence and one that does not.
RunDeltas ==
  { <<"H","i"," ","t","h","e","r","e",".">>,
    <<" ","y","e","s">> }

\* Text deltas the provider streams to the second run.
PeerDeltas ==
  { <<"Y","e","s",".">>,
    <<" ","n","o">> }

TwoRunsInit ==
  /\ mode = "text"
  /\ thread_id \in ThreadIds
  /\ assistant_id \in AssistantIds
  /\ service_assistant_id \in {assistant_id, PeerAssistantId}
  /\ audio_size = 0
  /\ user_input \in TextMessages
  /\ pc = "assistant_id"
  /\ events = <<>>
  /\ accumulated_text = <<>>
  /\ current_thread_id = thread_id
  /\ chunk_count = 0
  /\ sentence_buffer = <<>>
  /\ audio_chunk_count = 0
  /\ deltas_seen = 0
  /\ segments = <<>>
  /\ emotion_stage = "none"
  /\ provider_calls = <<>>
  /\ Resolved
  /\ Outside({"peer"})
  /\ peer_pc = "assistant_id"
  /\ peer_received = <<>>
  /\ peer_accumulated_text = <<>>
  /\ peer_sentence_buffer = <<>>
  /\ peer_opened = Nothing
  /\ peer_done = Nothing

\* streaming_utils.py:42-44 in the second run: the service's assistant id
\* is overwritten with the id of that run.
PeerYieldAssistantId ==
  /\ peer_pc = "assistant_id"
  /\ service_assistant_id' = PeerAssistantId
  /\ peer_pc' = "stream_open"
  /\ UNCHANGED << beside_peer, peer_received, peer_accumulated_text,
                  peer_sentence_buffer, peer_opened, peer_done >>

\* assistant_service.py:610-621 in the second run.
PeerOpenStream ==
  /\ peer_pc = "stream_open"
  /\ peer_opened' =
       StreamIds(PeerThreadId,
                 StreamAssistantId(PeerAssistantId, service_assistant_id))
  /\ peer_pc' = "streaming"
  /\ UNCHANGED << beside_peer, service_assistant_id, peer_received,
                  peer_accumulated_text, peer_sentence_buffer, peer_done >>

\* streaming_utils.py:101-125 in the second run: the delta is accumulated
\* and buffered, and the buffer is reset at a sentence end.
PeerTextDelta ==
  /\ peer_pc = "streaming"
  /\ Len(peer_received) < MaxPeerDeltas
  /\ \E text_delta \in PeerDeltas :
       /\ peer_received' = Append(peer_received, text_delta)
       /\ peer_accumulated_text' = peer_accumulated_text \o text_delta
       /\ peer_sentence_buffer' =
            IF EndsWithTerminator(peer_sentence_buffer \o text_delta)
            THEN BufferAfterFlush(peer_sentence_buffer \o text_delta)
            ELSE peer_sentence_buffer \o text_delta
  /\ UNCHANGED << beside_peer, service_assistant_id, peer_pc, peer_opened,
                  peer_done >>

\* streaming_utils.py:127-165 in the second run: the buffer is emptied and
\* the done event is built from the ids and the text of that run.
PeerCompleted ==
  /\ peer_pc = "streaming"
  /\ peer_sentence_buffer' = <<>>
  /\ LET filtered_text == filter_unwanted_phrases(peer_accumulated_text)
     IN peer_done' = EvDone(PeerThreadId, PeerAssistantId,
                            analyze_emotion(filtered_text), filtered_text)
  /\ peer_pc' = "finished"
  /\ UNCHANGED << beside_peer, service_assistant_id, peer_received,
                  peer_accumulated_text, peer_opened >>

\* The first run receives one of its deltas.
RunTextDelta ==
  /\ TextDelta
  /\ events'[Len(events')].text \in RunDeltas

TwoRunsNext ==
  \/ YieldAssistantId
  \/ YieldThreadId
  \/ StreamThreadId
  \/ AddMessageFails
  \/ OpenStream
  \/ OpenStreamFails
  \/ RunTextDelta
  \/ RunCompleted
  \/ RunFailed
  \/ StreamEnds
  \/ SynthesizeOk
  \/ SynthesizeFails
  \/ NoSynthesis
  \/ EmotionOk
  \/ EmotionFails
  \/ FilterFails
  \/ StreamReturns
  \/ PeerYieldAssistantId
  \/ PeerOpenStream
  \/ PeerTextDelta
  \/ PeerCompleted

TwoRunsSpec == TwoRunsInit /\ [][TwoRunsNext]_vars

(***************************************************************************)
(* services/audio_service.py: speech_to_text, as any caller may call it    *)
(* (stream_audio_chat, or the diagnostic endpoint of app.py)               *)
(***************************************************************************)

\* Audio sizes this far around the silence threshold are tried.
MaxMargin == 10

SttAudioSizes == (MinAudioBytes - MaxMargin)..(MinAudioBytes + MaxMargin)

\* config.py: OPENAI_API_KEY, '' when the environment has none
ApiKeys == {"", "sk-key"}

Returned(text) == [outcome |-> "returned", text |-> text]

Raised(error_type, message) ==
  [outcome |-> "raised", error_type |-> error_type, message |-> message]

\* No conversation is being resolved or run.
NoConversation ==
  /\ mode = "none"
  /\ Unstarted
  /\ thread_id = ""
  /\ assistant_id = ""
  /\ service_assistant_id = ""
  /\ raw_assistant_id = ""
  /\ raw_thread_id = ""
  /\ force_new_thread = FALSE
  /\ provider_assistants = <<>>
  /\ provider_threads = {}
  /\ rpc = "idle"
  /\ candidate_index = 1
  /\ thread_created = FALSE
  /\ cache_at_call = ""
  /\ first_call = NoEarlierCall

\* speech_to_text is called with audio of some size, with or without a
\* configured key.
SttInit ==
  /\ NoConversation
  /\ audio_size \in SttAudioSizes
  /\ openai_api_key \in ApiKeys
  /\ stt_pc = "called"
  /\ stt_result = NoResult
  /\ Outside({"transcription"})

\* `if not self.openai_api_key: raise ValueError(...)`
SttNoKey ==
  /\ stt_pc = "called"
  /\ openai_api_key = ""
  /\ stt_result' = Raised("ValueError", "OPENAI_API_KEY is required")
  /\ stt_pc' = "raised"
  /\ UNCHANGED << beside_transcription, audio_size, provider_calls, openai_api_key >>

\* The key is configured: the client is built and the audio is measured.
SttMeasures ==
  /\ stt_pc = "called"
  /\ openai_api_key # ""
  /\ stt_pc' = "measured"
  /\ UNCHANGED << beside_transcription, audio_size, provider_calls, openai_api_key,
                  stt_result >>

\* `if audio_size < 3000: return ""`
SttSilence ==
  /\ stt_pc = "measured"
  /\ TooSmall(audio_size)
  /\ stt_result' = Returned(<<>>)
  /\ stt_pc' = "returned"
  /\ UNCHANGED << beside_transcription, audio_size, provider_calls, openai_api_key >>

\* The provider transcribes: `return transcript.text.strip()`
SttTranscribes ==
  /\ stt_pc = "measured"
  /\ ~TooSmall(audio_size)
  /\ \E transcript \in Transcripts :
       stt_result' = Returned(Strip(transcript))
  /\ provider_calls' =
       Append(provider_calls, Call("audio.transcriptions.create", "ok"))
  /\ stt_pc' = "returned"
  /\ UNCHANGED << beside_transcription, audio_size, openai_api_key >>

\* The provider answers with a rate limit error.
SttRateLimited ==
  /\ stt_pc = "measured"
  /\ ~TooSmall(audio_size)
  /\ stt_result' = Raised("Exception", "Rate limit reached")
  /\ provider_calls' =
       Append(provider_calls, Call("audio.transcriptions.create", "raised"))
  /\ stt_pc' = "raised"
  /\ UNCHANGED << beside_transcription, audio_size, openai_api_key >>

\* The provider call fails in any other way.
SttFails ==
  /\ stt_pc = "measured"
  /\ ~TooSmall(audio_size)
  /\ stt_result' = Raised("Exception", "Speech-to-text error")
  /\ provider_calls' =
       Append(provider_calls, Call("audio.transcriptions.create", "raised"))
  /\ stt_pc' = "raised"
  /\ UNCHANGED << beside_transcription, audio_size, openai_api_key >>

SttNext ==
  \/ SttNoKey
  \/ SttMeasures
  \/ SttSilence
  \/ SttTranscribes
  \/ SttRateLimited
  \/ SttFails

SttSpec == SttInit /\ [][SttNext]_vars

(***************************************************************************)
(* utils/text_filters.py: filter_unwanted_phrases applied to a text and    *)
(* then to its own result                                                  *)
(***************************************************************************)

\* Texts are made of at most this many pieces.
MaxPieces == 4

\* "Hello there. ", "see you ", "later ", "Thanks for listening! ",
\* "See you next time."
Pieces ==
  { <<"H","e","l","l","o"," ","t","h","e","r","e","."," ">>,
    <<"s","e","e"," ","y","o","u"," ">>,
    <<"l","a","t","e","r"," ">>,
    <<"T","h","a","n","k","s"," ","f","o","r"," ","l","i","s","t","e","n","i","n","g","!"," ">>,
    <<"S","e","e"," ","y","o","u"," ","n","e","x","t"," ","t","i","m","e",".">> }

RECURSIVE Join(_)
Join(pieces) ==
  IF pieces = <<>> THEN <<>> ELSE Head(pieces) \o Join(Tail(pieces))

\* The texts given to the filter: the empty text and every sequence of
\* pieces.
FilterTexts ==
  { Join(pieces) : pieces \in UNION { [1..n -> Pieces] : n \in 0..MaxPieces } }

FilterInit ==
  /\ NoConversation
  /\ audio_size = 0
  /\ filter_pc = "input"
  /\ filter_input \in FilterTexts
  /\ filter_output = <<>>
  /\ filter_again = <<>>
  /\ Outside({"filtering"})

\* filter_unwanted_phrases(text)
FilterOnce ==
  /\ filter_pc = "input"
  /\ filter_output' = filter_unwanted_phrases(filter_input)
  /\ filter_pc' = "filtered"
  /\ UNCHANGED << beside_filtering, filter_input, filter_again >>

\* filter_unwanted_phrases applied to the text it returned
FilterTwice ==
  /\ filter_pc = "filtered"
  /\ filter_again' = filter_unwanted_phrases(filter_output)
  /\ filter_pc' = "refiltered"
  /\ UNCHANGED << beside_filtering, filter_input, filter_output >>

FilterNext ==
  \/ FilterOnce
  \/ FilterTwice

FilterSpec == FilterInit /\ [][FilterNext]_vars

(***************************************************************************)
(* services/emotion_service.py: calls of analyze_emotion on the shared     *)
(* EmotionService                                                          *)
(***************************************************************************)

\* At most this many calls are made on the service.
MaxEmotionCalls == 3

\* "", "ok", "Happy happy happy" (one keyword, three times), "Sad, sorry",
\* "Great joy, amazing!" (three keywords of happy), "amazing"
\* (a keyword of happy and of excited), "Wow, awesome and amazing"
EmotionTexts ==
  { <<>>,
    <<"a","m","a","z","i","n","g">>,
    <<"W","o","w",","," ","a","w","e","s","o","m","e"," ","a","n","d"," ","a","m","a","z","i","n","g">>,
    <<"o","k">>,
    <<"H","a","p","p","y"," ","h","a","p","p","y"," ","h","a","p","p","y">>,
    <<"S","a","d",","," ","s","o","r","r","y">>,
    <<"G","r","e","a","t"," ","j","o","y",","," ","a","m","a","z","i","n","g","!">> }

EmotionInit ==
  /\ NoConversation
  /\ audio_size = 0
  /\ emotion_service = NewEmotionService
  /\ emotion_calls = <<>>
  /\ Outside({"emotions"})

\* One call of emotion_service.analyze_emotion(text).
AnalyzeCall ==
  /\ Len(emotion_calls) < MaxEmotionCalls
  /\ \E text \in EmotionTexts :
       /\ emotion_calls' =
            Append(emotion_calls,
                   [text |-> text,
                    result |-> AnalyzeEmotion(emotion_service, text)])
       /\ emotion_service' = ServiceAfterAnalysis(emotion_service, text)
  /\ UNCHANGED beside_emotions

EmotionNext == AnalyzeCall

EmotionSpec == EmotionInit /\ [][EmotionNext]_vars

(***************************************************************************)
(* routes/audio_routes.py: detect_wake_word, with                          *)
(* utils/wakeword_utils.py: init_wakeword_model and decode_audio_to_pcm16  *)
(***************************************************************************)

\* Scores and thresholds are hundredths: 50 stands for 0.5.
Thresholds == {50, 80}

\* What the model may predict for "hey_rhasspy", around each threshold.
Scores == {0, 100} \cup UNION { {t - 1, t, t + 1} : t \in Thresholds }

\* len of the upload: -1 when the request has no audio file, 0 for an empty
\* one.
WakeAudioSizes == {-1, 0, 1000, 4000}

\* Samples ffmpeg may produce.
PcmSizes == {1, 16000}

FfmpegPaths == {"", "/usr/bin/ffmpeg"}

\* The module was imported: init_wakeword_model loaded the model or left it
\* None, shutil.which looked for ffmpeg, and a request has arrived.
WakeInit ==
  /\ NoConversation
  /\ audio_size = 0
  /\ wakeword_model \in {"loaded", "none"}
  /\ ffmpeg_path \in FfmpegPaths
  /\ wakeword_threshold \in Thresholds
  /\ wake_pc = "received"
  /\ wake_audio \in WakeAudioSizes
  /\ wake_pcm = -1
  /\ wake_score = 0
  /\ wake_calls = <<>>
  /\ wake_response = [status |-> 0]
  /\ wake_import = IF wakeword_model = "loaded" THEN "loaded" ELSE "failed"
  /\ wake_loads = 1
  /\ wake_served = 1
  /\ Outside({"wakeword"})

\* The detector's configuration and the upload, which the handling of a
\* request does not change, with the histories of the import and of the
\* requests received.
detector ==
  << wakeword_model, ffmpeg_path, wakeword_threshold, wake_audio,
     wake_import, wake_loads, wake_served >>

WakeAnswer(detected, score, available) ==
  [status |-> 200,
   wake_word_detected |-> detected,
   wake_word_score |-> score,
   wake_word_available |-> available]

\* Variant: the audio is decoded before the model is looked at.
AfterReceiptDecodesFirst(model) == "decoding"

\* `if not WAKEWORD_MODEL:` answer at once, else decode
AfterReceipt(model) == IF model = "none" THEN "unavailable" ELSE "decoding"

\* No audio file, or one without a name: 400.
WakeRejects ==
  /\ wake_pc = "received"
  /\ wake_audio = -1
  /\ wake_response' = [status |-> 400, error |-> "Audio file is required"]
  /\ wake_pc' = "answered"
  /\ UNCHANGED << beside_wakeword, detector, wake_pcm, wake_score, wake_calls >>

\* The audio bytes are read.
WakeReads ==
  /\ wake_pc = "received"
  /\ wake_audio >= 0
  /\ wake_pc' = AfterReceipt(wakeword_model)
  /\ UNCHANGED << beside_wakeword, detector, wake_pcm, wake_score, wake_calls,
                  wake_response >>

\* No model: the answer says so.
WakeUnavailable ==
  /\ wake_pc = "unavailable"
  /\ wake_response' = WakeAnswer(FALSE, 0, FALSE)
  /\ wake_pc' = "answered"
  /\ UNCHANGED << beside_wakeword, detector, wake_pcm, wake_score, wake_calls >>

\* decode_audio_to_pcm16 returns None before it starts ffmpeg: no bytes, or
\* no ffmpeg.
DecodeRefuses ==
  /\ wake_pc = "decoding"
  /\ wake_audio = 0 \/ ffmpeg_path = ""
  /\ wake_calls' = Append(wake_calls, "decode_audio_to_pcm16")
  /\ wake_pcm' = -1
  /\ wake_pc' = "decoded"
  /\ UNCHANGED << beside_wakeword, detector, wake_score, wake_response >>

\* ffmpeg cannot be started, exits with an error or writes nothing:
\* decode_audio_to_pcm16 returns None.
DecodeFails ==
  /\ wake_pc = "decoding"
  /\ wake_audio > 0
  /\ ffmpeg_path # ""
  /\ wake_calls' = wake_calls \o << "decode_audio_to_pcm16", "ffmpeg" >>
  /\ wake_pcm' = -1
  /\ wake_pc' = "decoded"
  /\ UNCHANGED << beside_wakeword, detector, wake_score, wake_response >>

\* ffmpeg writes samples: decode_audio_to_pcm16 returns them.
DecodeOk ==
  /\ wake_pc = "decoding"
  /\ wake_audio > 0
  /\ ffmpeg_path # ""
  /\ wake_calls' = wake_calls \o << "decode_audio_to_pcm16", "ffmpeg" >>
  /\ wake_pcm' \in PcmSizes
  /\ wake_pc' = "decoded"
  /\ UNCHANGED << beside_wakeword, detector, wake_score, wake_response >>

\* Variant: the prediction runs whatever was decoded.
CanPredictAlways(pcm) == TRUE

\* `if pcm is not None and pcm.size > 0:`
CanPredict(pcm) == pcm # -1 /\ pcm > 0

\* Variant: the score must exceed the threshold.
DetectedAbove(score, threshold) == score > threshold

\* `wake_detected = wake_score >= WAKEWORD_THRESHOLD`
Detected(score, threshold) == score >= threshold

\* WAKEWORD_MODEL.predict(pcm) returns a score.
Predicts ==
  /\ wake_pc = "decoded"
  /\ CanPredict(wake_pcm)
  /\ wake_calls' = Append(wake_calls, "predict")
  /\ \E score \in Scores :
       /\ wake_score' = score
       /\ wake_response' =
            WakeAnswer(Detected(score, wakeword_threshold), score, TRUE)
  /\ wake_pc' = "answered"
  /\ UNCHANGED << beside_wakeword, detector, wake_pcm >>

\* WAKEWORD_MODEL.predict(pcm) raises: handle_error answers.
PredictFails ==
  /\ wake_pc = "decoded"
  /\ CanPredict(wake_pcm)
  /\ wake_calls' = Append(wake_calls, "predict")
  /\ wake_response' = [status |-> 500, error |-> "Wake word prediction"]
  /\ wake_pc' = "answered"
  /\ UNCHANGED << beside_wakeword, detector, wake_pcm, wake_score >>

\* The else branch: detection is skipped.
SkipsDetection ==
  /\ wake_pc = "decoded"
  /\ ~CanPredict(wake_pcm)
  /\ wake_response' = WakeAnswer(FALSE, 0, TRUE)
  /\ wake_pc' = "answered"
  /\ UNCHANGED << beside_wakeword, detector, wake_pcm, wake_score, wake_calls >>

WakeNext ==
  \/ WakeRejects
  \/ WakeReads
  \/ WakeUnavailable
  \/ DecodeRefuses
  \/ DecodeFails
  \/ DecodeOk
  \/ Predicts
  \/ PredictFails
  \/ SkipsDetection

WakeSpec == WakeInit /\ [][WakeNext]_vars

(***************************************************************************)
(* utils/wakeword_utils.py over the life of the process: the import, which *)
(* calls init_wakeword_model once, and the wake-word requests served after *)
(* it                                                                      *)
(***************************************************************************)

\* Wake-word requests the process serves.
MaxWakeRequests == 2

\* The process starts: utils.wakeword_utils is about to be imported by
\* routes/audio_routes.py; WAKEWORD_MODEL = None.
WakeLifeInit ==
  /\ NoConversation
  /\ audio_size = 0
  /\ wakeword_model = "none"
  /\ ffmpeg_path \in FfmpegPaths
  /\ wakeword_threshold = 50
  /\ wake_pc = "importing"
  /\ wake_audio = -1
  /\ wake_pcm = -1
  /\ wake_score = 0
  /\ wake_calls = <<>>
  /\ wake_response = [status |-> 0]
  /\ wake_import = "pending"
  /\ wake_loads = 0
  /\ wake_served = 0
  /\ Outside({"wakeword"})

\* What the import leaves to the requests.
imported == << ffmpeg_path, wakeword_threshold, wake_audio, wake_pcm,
               wake_score, wake_calls, wake_response, wake_served >>

\* openwakeword cannot be imported: WAKEWORD_AVAILABLE is False and
\* init_wakeword_model returns at once.
ImportSkips ==
  /\ wake_pc = "importing"
  /\ wake_import' = "skipped"
  /\ wake_pc' = "serving"
  /\ UNCHANGED << beside_wakeword, imported, wakeword_model, wake_loads >>

\* init_wakeword_model constructs the model.
ImportLoads ==
  /\ wake_pc = "importing"
  /\ wakeword_model' = "loaded"
  /\ wake_loads' = wake_loads + 1
  /\ wake_import' = "loaded"
  /\ wake_pc' = "serving"
  /\ UNCHANGED << beside_wakeword, imported >>

\* The construction raises: logged, WAKEWORD_MODEL = None.
ImportFails ==
  /\ wake_pc = "importing"
  /\ wakeword_model' = "none"
  /\ wake_loads' = wake_loads + 1
  /\ wake_import' = "failed"
  /\ wake_pc' = "serving"
  /\ UNCHANGED << beside_wakeword, imported >>

\* Variant: a request that finds no model has it loaded.
ModelAtRequestRetried(model) == "loaded"

\* The WAKEWORD_MODEL a request works with: the name audio_routes bound at
\* its import; detect_wake_word reads it and nothing assigns it.
ModelAtRequest(model) == model

\* A wake-word request arrives, the first one or one after an answer.
NextRequest ==
  /\ wake_pc \in {"serving", "answered"}
  /\ wake_served < MaxWakeRequests
  /\ wake_served' = wake_served + 1
  /\ wake_audio' \in WakeAudioSizes
  /\ wakeword_model' = ModelAtRequest(wakeword_model)
  /\ wake_pcm' = -1
  /\ wake_score' = 0
  /\ wake_calls' = <<>>
  /\ wake_response' = [status |-> 0]
  /\ wake_pc' = "received"
  /\ UNCHANGED << beside_wakeword, ffmpeg_path, wakeword_threshold,
                  wake_import, wake_loads >>

WakeLifeNext ==
  \/ ImportSkips
  \/ ImportLoads
  \/ ImportFails
  \/ NextRequest
  \/ WakeNext

WakeLifeSpec == WakeLifeInit /\ [][WakeLifeNext]_vars

(***************************************************************************)
(* The singleton services: __new__ and __init__ of AssistantService,       *)
(* AudioService and EmotionService, called by the threads that serve the   *)
(* first requests.  A step is one read or write of cls._instance or of     *)
(* _initialized; the interpreter may switch threads between any two.       *)
(***************************************************************************)

\* The process has started; no service has been constructed.
ConstructInit ==
  /\ NoConversation
  /\ audio_size = 0
  /\ cls_instance = 0
  /\ initialized = <<>>
  /\ ctor_pc = [t \in Threads |-> "idle"]
  /\ ctor_self = [t \in Threads |-> 0]
  /\ init_runs = 0
  /\ Outside({"construction"})

\* A request handler evaluates `Service()`.
Construct(t) ==
  /\ ctor_pc[t] = "idle"
  /\ ctor_pc' = [ctor_pc EXCEPT ![t] = "new"]
  /\ UNCHANGED << beside_construction, cls_instance, initialized, ctor_self,
                  init_runs >>

\* __new__: `if cls._instance is None:` is read.
NewTestsInstance(t) ==
  /\ ctor_pc[t] = "new"
  /\ ctor_pc' = [ctor_pc EXCEPT
                   ![t] = IF cls_instance = 0 THEN "allocate" ELSE "return"]
  /\ UNCHANGED << beside_construction, cls_instance, initialized, ctor_self,
                  init_runs >>

\* `cls._instance = super(...).__new__(cls)`: a new object, which has no
\* _initialized attribute yet.
NewAllocates(t) ==
  /\ ctor_pc[t] = "allocate"
  /\ initialized' = Append(initialized, "unset")
  /\ cls_instance' = Len(initialized) + 1
  /\ ctor_pc' = [ctor_pc EXCEPT ![t] = "clear"]
  /\ UNCHANGED << beside_construction, ctor_self, init_runs >>

\* `cls._instance._initialized = False`, on whatever cls._instance is now.
NewClearsFlag(t) ==
  /\ ctor_pc[t] = "clear"
  /\ initialized' = [initialized EXCEPT ![cls_instance] = "False"]
  /\ ctor_pc' = [ctor_pc EXCEPT ![t] = "return"]
  /\ UNCHANGED << beside_construction, cls_instance, ctor_self, init_runs >>

\* `return cls._instance`; __init__ is then called on the object returned.
NewReturns(t) ==
  /\ ctor_pc[t] = "return"
  /\ ctor_self' = [ctor_self EXCEPT ![t] = cls_instance]
  /\ ctor_pc' = [ctor_pc EXCEPT ![t] = "init"]
  /\ UNCHANGED << beside_construction, cls_instance, initialized, init_runs >>

\* __init__: `if self._initialized: return` (`if not self._initialized:` in
\* AudioService and EmotionService) on an initialised object.
InitSkips(t) ==
  /\ ctor_pc[t] = "init"
  /\ initialized[ctor_self[t]] = "True"
  /\ ctor_pc' = [ctor_pc EXCEPT ![t] = "obtained"]
  /\ UNCHANGED << beside_construction, cls_instance, initialized, ctor_self,
                  init_runs >>

\* The test finds _initialized false: the body of __init__ starts.
InitEnters(t) ==
  /\ ctor_pc[t] = "init"
  /\ initialized[ctor_self[t]] = "False"
  /\ init_runs' = init_runs + 1
  /\ ctor_pc' = [ctor_pc EXCEPT ![t] = "body"]
  /\ UNCHANGED << beside_construction, cls_instance, initialized, ctor_self >>

\* The test reads _initialized of an object whose __new__ has not set it
\* yet: AttributeError, the constructor raises.
InitRaises(t) ==
  /\ ctor_pc[t] = "init"
  /\ initialized[ctor_self[t]] = "unset"
  /\ ctor_pc' = [ctor_pc EXCEPT ![t] = "raised"]
  /\ UNCHANGED << beside_construction, cls_instance, initialized, ctor_self,
                  init_runs >>

\* The body has assigned the fields: `self._initialized = True`, and the
\* thread has its service.
InitCompletes(t) ==
  /\ ctor_pc[t] = "body"
  /\ initialized' = [initialized EXCEPT ![ctor_self[t]] = "True"]
  /\ ctor_pc' = [ctor_pc EXCEPT ![t] = "obtained"]
  /\ UNCHANGED << beside_construction, cls_instance, ctor_self, init_runs >>

ConstructNext ==
  \E t \in Threads :
    \/ Construct(t)
    \/ NewTestsInstance(t)
    \/ NewAllocates(t)
    \/ NewClearsFlag(t)
    \/ NewReturns(t)
    \/ InitSkips(t)
    \/ InitEnters(t)
    \/ InitRaises(t)
    \/ InitCompletes(t)

ConstructSpec == ConstructInit /\ [][ConstructNext]_vars

(***************************************************************************)
(* Properties                                                              *)
(***************************************************************************)

Indices(type) == {i \in 1..Len(events) : events[i].type = type}

Count(type) == Cardinality(Indices(type))

DoneEvent == events[CHOOSE i \in Indices("done") : TRUE]

\* The text delivered by the text events among the first n events.
RECURSIVE TextUpTo(_)
TextUpTo(n) ==
  IF n = 0 THEN <<>>
  ELSE TextUpTo(n - 1) \o (IF events[n].type = "text" THEN events[n].text ELSE <<>>)

\* The sentences carried by the audio_chunk events, in emission order.
AudioTexts ==
  LET chunks == SelectSeq(events, LAMBDA e : e.type = "audio_chunk")
  IN [k \in 1..Len(chunks) |-> chunks[k].text]

RECURSIVE Concat(_)
Concat(texts) == IF texts = <<>> THEN <<>> ELSE Head(texts) \o Concat(Tail(texts))

Punctuation == {".", "!", "?", ",", ";", ":"}

\* Text up to punctuation and whitespace.
Normalise(text) == SelectSeq(text, LAMBDA c : ~IsSpace(c) /\ c \notin Punctuation)

CallsTo(apis) == SelectSeq(provider_calls, LAMBDA c : c.api \in apis)

CompletionApis == {"threads.create", "threads.messages.create", "threads.runs.stream"}

\* A completed non-greeting run: it has ended and has emitted done.
Completed == mode # "greeting" /\ pc = "finished" /\ Count("done") = 1

\* C1: every run that has ended has emitted exactly one terminal event, a
\* done or an error, never both and never neither.
C1_ExactlyOneTerminal ==
  pc = "finished" => Count("done") + Count("error") = 1

\* C2: an error event is the last event of its run: nothing, and in
\* particular no done event, is emitted after it.
C2_ErrorEndsRun ==
  \A i \in Indices("error") : i = Len(events)

\* C3: every thread_id event and every assistant_id event precedes every
\* text event of the run.
C3_IdsPrecedeText ==
  \A i \in Indices("thread_id") \cup Indices("assistant_id") :
    \A j \in Indices("text") : i < j

C3_Witness ==
  /\ mode = "text" /\ pc = "finished"
  /\ Count("assistant_id") = 1 /\ Count("thread_id") = 2 /\ Count("text") = 2

\* C4: audio chunks follow text arrival order: the sentence of each
\* audio_chunk is made of text that arrived after the previous audio_chunk
\* was emitted and before its own emission.
C4_AudioFollowsArrival ==
  \A i \in Indices("audio_chunk") :
    LET earlier == {j \in Indices("audio_chunk") : j < i}
        last == IF earlier = {} THEN 0
                ELSE CHOOSE j \in earlier : \A k \in earlier : k <= j
        arrived == TextUpTo(i)
        window == SubSeq(arrived, Len(TextUpTo(last)) + 1, Len(arrived))
    IN Contains(window, events[i].text)

C4_Witness ==
  /\ mode # "greeting" /\ pc = "finished"
  /\ Len(AudioTexts) = 2 /\ AudioTexts[1] # AudioTexts[2]

\* C5 as stated: in a completed non-greeting run the audio chunk texts,
\* concatenated, equal done.full_text up to punctuation and whitespace.
C5_AudioCoversResponse ==
  Completed => Normalise(Concat(AudioTexts)) = Normalise(DoneEvent.full_text)

\* C5 amended: in a completed non-greeting run the segments taken from the
\* sentence buffer make up the whole unfiltered response; a segment is
\* synthesized exactly when its trimmed length exceeds 3; the audio chunk
\* texts are the trimmed segments whose synthesis succeeded, in order; and
\* when every segment was spoken and the filter only normalised whitespace,
\* their concatenation equals done.full_text up to punctuation and
\* whitespace.
C5_AudioIsSpokenSegments ==
  Completed =>
    LET spoken == SelectSeq(segments, LAMBDA s : s.fate = "spoken")
    IN /\ Concat([k \in 1..Len(segments) |-> segments[k].text]) = accumulated_text
       /\ \A k \in 1..Len(segments) :
            (segments[k].fate = "skipped") <=> (Len(Strip(segments[k].text)) <= 3)
       /\ AudioTexts = [k \in 1..Len(spoken) |-> Strip(spoken[k].text)]
       /\ ( /\ \A k \in 1..Len(segments) : segments[k].fate = "spoken"
            /\ DoneEvent.full_text = Strip(CollapseSpaces(accumulated_text, 1)) )
          => Normalise(Concat(AudioTexts)) = Normalise(DoneEvent.full_text)

C5_Witness ==
  /\ Completed
  /\ \E k \in 1..Len(segments) : segments[k].fate = "skipped"
  /\ \E k \in 1..Len(segments) : segments[k].fate = "spoken"

\* C6: in a non-greeting run a sentence whose synthesis failed yields no
\* audio_chunk and no error event, and once the provider has completed the
\* run has ended with done.
C6_SynthesisFailureNonFatal ==
  ( /\ mode # "greeting" /\ pc = "finished" /\ emotion_stage # "none"
    /\ \E k \in 1..Len(segments) : segments[k].fate = "failed" )
  => /\ Len(AudioTexts) = Len(SelectSeq(segments, LAMBDA s : s.fate = "spoken"))
     /\ Count("error") = 0
     /\ Count("done") = 1

\* C7: a failure of the emotion stage, in the filter or in the classifier,
\* leaves no error event; the run emits done with the neutral emotion.
C7_EmotionFailureNonFatal ==
  emotion_stage \in {"filter_raised", "classifier_raised"}
  => /\ Count("error") = 0
     /\ Count("done") = 1
     /\ DoneEvent.emotion = NeutralEmotion

\* The text, audio_chunk, done and error events of the run, in order.
CoreEvents ==
  SelectSeq(events, LAMBDA e : e.type \in {"text", "audio_chunk", "done", "error"})

C9_GreetingSkipsCompletion ==
  mode = "greeting" => CallsTo(CompletionApis) = <<>>

C9_Witness ==
  /\ mode = "greeting" /\ pc = "finished"
  /\ Count("done") = 1
  /\ CallsTo({"audio.speech.create"}) # <<>>

\* C10: in audio mode a transcription that is empty or of trimmed length
\* below 3 yields the single error event "No speech detected or text too
\* short" and ends the run with no call to the completion service or the
\* synthesizer; a longer one (trimmed length 3 included) is announced by
\* input_text and the run goes on.
C10_ShortTranscriptionEnds ==
  ( /\ mode = "audio" /\ pc # "stt"
    /\ CallsTo({"audio.transcriptions.create"}) # << Call("audio.transcriptions.create", "raised") >> )
  => IF user_input = <<>> \/ Len(Strip(user_input)) < 3
     THEN /\ events = << [type |-> "error", error |-> "No speech detected or text too short"] >>
          /\ pc = "finished"
          /\ CallsTo(CompletionApis \cup {"audio.speech.create"}) = <<>>
     ELSE /\ events[1] = EvInputText(user_input)
          /\ pc = "finished" => Len(events) > 1

C10_Witness ==
  /\ mode = "audio" /\ pc = "finished"
  /\ Len(user_input) = 2
  /\ CallsTo({"audio.transcriptions.create"}) = << Call("audio.transcriptions.create", "ok") >>
  /\ Len(events) = 1

\* C11: an audio request whose audio is shorter than the silence threshold
\* ends with an error event and no external provider (transcription,
\* assistant, thread, completion or synthesis) has been called while the
\* request was handled.
C11_SilenceCallsNoProvider ==
  (mode = "audio" /\ audio_size < MinAudioBytes /\ pc = "finished")
    => /\ provider_calls = <<>>
       /\ events # <<>>
       /\ events[Len(events)].type = "error"

TranscriptionCalls == Len(CallsTo({"audio.transcriptions.create"}))

SttFinished == stt_pc \in {"returned", "raised"}

\* C12 as stated: whenever speech_to_text is given audio shorter than 3000
\* bytes it returns the empty string without calling the transcription
\* provider, and audio of exactly 3000 bytes is sent to the provider.
C12_SilenceAlwaysEmpty ==
  SttFinished =>
    /\ audio_size < 3000 =>
         (stt_result = Returned(<<>>) /\ TranscriptionCalls = 0)
    /\ audio_size = 3000 => TranscriptionCalls = 1

\* C12, amended: audio shorter than 3000 bytes never reaches the
\* transcription provider; with a configured key speech_to_text returns the
\* empty string for it and sends audio of exactly 3000 bytes to the provider;
\* without a key it raises ValueError whatever the size, before the size is
\* looked at.
C12_SilenceShortCircuit ==
  SttFinished =>
    /\ audio_size < 3000 => TranscriptionCalls = 0
    /\ (audio_size < 3000 /\ openai_api_key # "") =>
         stt_result = Returned(<<>>)
    /\ (audio_size = 3000 /\ openai_api_key # "") => TranscriptionCalls = 1
    /\ openai_api_key = "" =>
         /\ stt_result.outcome = "raised"
         /\ stt_result.error_type = "ValueError"
         /\ TranscriptionCalls = 0

\* Audio one byte under the threshold was returned as silence, with a key.
C12_Witness ==
  /\ stt_pc = "returned"
  /\ audio_size = 2999
  /\ openai_api_key # ""
  /\ stt_result = Returned(<<>>)

\* C13: the unwanted-phrase filter is idempotent: applying it to its own
\* result gives that result again, for every text, also when removing one
\* stock phrase brings the words around it together into another one.
C13_FilterIdempotent ==
  filter_pc = "refiltered" => filter_again = filter_output

\* C14: the text "Thanks for listening! See you next time." is filtered to
\* exactly "How can I help you further?".
C14_AllStockGivesFallback ==
  ( /\ filter_pc # "input"
    /\ filter_input =
         <<"T","h","a","n","k","s"," ","f","o","r"," ","l","i","s","t","e","n","i","n","g","!"," ">>
           \o <<"S","e","e"," ","y","o","u"," ","n","e","x","t"," ","t","i","m","e",".">> )
    => filter_output =
         <<"H","o","w"," ","c","a","n"," ","I"," ","h","e","l","p"," ","y","o","u"," ","f","u","r","t","h","e","r","?">>

\* C15: analyze_emotion is a pure function: over any sequence of calls on
\* the shared service, calls with the same text return the same emotion and
\* intensity, and the keyword table and the default emotion stay as they
\* were constructed.
C15_AnalysisIsPure ==
  /\ emotion_service.emotion_keywords = emotion_keywords
  /\ emotion_service.default_emotion = "friendly"
  /\ \A i, j \in 1..Len(emotion_calls) :
       emotion_calls[i].text = emotion_calls[j].text
         => emotion_calls[i].result = emotion_calls[j].result

\* A text without keywords was analysed before and after a text that has
\* one, and got the default emotion both times.
C15_Witness ==
  /\ Len(emotion_calls) = 3
  /\ emotion_calls[1].text = <<"o","k">>
  /\ emotion_calls[2].result.emotion = "happy"
  /\ emotion_calls[3].text = <<"o","k">>
  /\ emotion_calls[3].result = [emotion |-> "friendly", intensity |-> <<1, 2>>]

WakeAnswered == wake_pc = "answered"

\* C16: when the model is available and the decoded PCM is not empty, the
\* answer reports the wake word as detected exactly when the score the
\* model predicted is greater than or equal to the configured threshold.
C16_DetectedIffAtThreshold ==
  ( /\ WakeAnswered
    /\ wakeword_model = "loaded"
    /\ wake_pcm > 0
    /\ wake_response.status = 200 )
    => /\ wake_response.wake_word_score = wake_score
       /\ wake_response.wake_word_detected <=> wake_score >= wakeword_threshold

\* A score equal to the threshold was reported as detected.
C16_Witness ==
  /\ WakeAnswered
  /\ wake_pcm > 0
  /\ wake_score = wakeword_threshold
  /\ wake_response.status = 200
  /\ wake_response.wake_word_detected

WakeCalled(name) == \E i \in 1..Len(wake_calls) : wake_calls[i] = name

\* C18: when decoding yields no PCM (no ffmpeg, a failing ffmpeg, no
\* output) decode_audio_to_pcm16 returns None without raising, and the
\* answer is detected=false, score=0.0 with available telling only whether
\* the model is loaded; predict is not called and no error is answered.
C18_NoPcmSkipsDetection ==
  (WakeAnswered /\ WakeCalled("decode_audio_to_pcm16") /\ wake_pcm = -1)
    => /\ wake_response =
            WakeAnswer(FALSE, 0, wakeword_model = "loaded")
       /\ ~WakeCalled("predict")

\* ffmpeg ran on the audio and gave no PCM, and the request was answered.
C18_Witness ==
  /\ WakeAnswered
  /\ WakeCalled("ffmpeg")
  /\ wake_pcm = -1
  /\ wake_response.status = 200

AssistantCalls ==
  CallsTo({"assistants.retrieve", "assistants.list", "assistants.create"})

\* The four steps of C19 in their order; a step without a candidate id is not
\* applicable.
ResolutionSteps ==
  (IF raw_assistant_id # ""
     THEN << [api |-> "assistants.retrieve", arg |-> raw_assistant_id] >>
     ELSE <<>>)
  \o (IF cache_at_call # ""
        THEN << [api |-> "assistants.retrieve", arg |-> cache_at_call] >>
        ELSE <<>>)
  \o << [api |-> "assistants.list", arg |-> "limit=1"],
        [api |-> "assistants.create", arg |-> "asst_new"] >>

\* ensure_assistant_id has returned an id.
AssistantResolved == assistant_id # ""

\* C19: ensure_assistant_id tries (a) the caller's id, (b) the last used id,
\* (c) the first assistant of the listing, (d) a newly created assistant, in
\* this order; a step's provider call is made only after every earlier
\* applicable step has failed, and the id returned is the one of the first
\* step that succeeds.
C19_ResolutionOrder ==
  LET calls == AssistantCalls
      n == Len(calls)
  IN /\ n <= Len(ResolutionSteps)
     /\ \A i \in 1..n :
          /\ calls[i].api = ResolutionSteps[i].api
          /\ calls[i].arg = ResolutionSteps[i].arg
          /\ i < n => calls[i].outcome # "ok"
     /\ AssistantResolved =>
          /\ n >= 1
          /\ calls[n].outcome = "ok"
          /\ assistant_id =
               CASE calls[n].api = "assistants.retrieve" -> calls[n].arg
                 [] calls[n].api = "assistants.list" -> Head(provider_assistants)
                 [] OTHER -> "asst_new"

\* Both candidates, different ids, failed and the listing gave the id.
C19_Witness ==
  /\ AssistantResolved
  /\ raw_assistant_id # ""
  /\ cache_at_call # ""
  /\ raw_assistant_id # cache_at_call
  /\ Len(AssistantCalls) = 3
  /\ assistant_id = Head(provider_assistants)

\* The candidate thread was found alive at the provider.
CandidateVerified ==
  \E i \in 1..Len(provider_calls) :
    provider_calls[i] = CallOn("threads.messages.list", raw_thread_id, "ok")

ThreadsCreated == Len(CallsTo({"threads.create"}))

\* C20: without force_new_thread, prepare_conversation returns the
\* candidate thread with thread_created=false and creates no thread exactly
\* when the candidate is non-empty, well-formed and its one-message fetch
\* succeeds; in every other case it creates exactly one new thread and
\* returns that with thread_created=true.
C20_ReuseOnlyVerified ==
  (rpc = "returned" /\ ~force_new_thread) =>
    IF raw_thread_id # "" /\ StartsWithThread(raw_thread_id) /\ CandidateVerified
    THEN /\ thread_id = raw_thread_id
         /\ ~thread_created
         /\ ThreadsCreated = 0
    ELSE /\ thread_id = "thread_new"
         /\ thread_created
         /\ ThreadsCreated = 1
         /\ thread_id \in provider_threads

\* A well-formed candidate whose fetch failed was replaced by a new thread.
C20_Witness ==
  /\ rpc = "returned"
  /\ ~force_new_thread
  /\ raw_thread_id = "thread_2"
  /\ thread_created
  /\ thread_id = "thread_new"

(***************************************************************************)
(* Properties of a repeated context resolution (ResolveTwiceSpec)          *)
(***************************************************************************)

\* The provider calls of the second call of prepare_conversation.
SecondCallCalls ==
  SubSeq(provider_calls, first_call.calls + 1, Len(provider_calls))

\* The second call has returned.
ReturnedAgain == first_call.returned /\ rpc = "returned"

\* The second call gave back what it was given and created nothing.
SameContext ==
  /\ assistant_id = first_call.assistant_id
  /\ thread_id = first_call.thread_id
  /\ ~thread_created
  /\ \A i \in 1..Len(SecondCallCalls) :
       SecondCallCalls[i].api \notin {"assistants.create", "threads.create"}

StructuredErrorFields == {"error", "error_type", "error_id"}

\* C22: every error event on the wire, whatever its origin (insufficient
\* transcription, transcription exception, provider error chunk, pipeline
\* exception), carries the fields error, error_type and error_id.
C22_ErrorsAreStructured ==
  \A i \in Indices("error") : StructuredErrorFields \subseteq DOMAIN events[i]

(***************************************************************************)
(* Properties of two runs served at the same time (TwoRunsSpec)            *)
(***************************************************************************)

\* The text ends with the given text.
IsSuffix(text, tail) ==
  /\ Len(tail) <= Len(text)
  /\ SubSeq(text, Len(text) - Len(tail) + 1, Len(text)) = tail

\* The streaming completions the first run opened.
RunStreamCalls == CallsTo({"threads.runs.stream"})

\* C23: concurrent runs are isolated: whatever the interleaving of two runs
\* resolved to different assistant and thread ids, and however the other
\* run overwrites the assistant id kept by the shared service, each run
\* opens its streaming completion with its own ids, its done event carries
\* its own ids, and its accumulator and sentence buffer hold only its own
\* deltas.
C23_RunsAreIsolated ==
  /\ \A i \in 1..Len(RunStreamCalls) :
       RunStreamCalls[i].arg = StreamIds(thread_id, assistant_id)
  /\ peer_opened # Nothing =>
       peer_opened = StreamIds(PeerThreadId, PeerAssistantId)
  /\ \A i \in Indices("done") :
       /\ events[i].thread_id = thread_id
       /\ events[i].assistant_id = assistant_id
  /\ peer_done # Nothing =>
       /\ peer_done.thread_id = PeerThreadId
       /\ peer_done.assistant_id = PeerAssistantId
       /\ peer_done.full_text = filter_unwanted_phrases(Concat(peer_received))
  /\ accumulated_text = TextUpTo(Len(events))
  /\ IsSuffix(accumulated_text, sentence_buffer)
  /\ peer_accumulated_text = Concat(peer_received)
  /\ IsSuffix(peer_accumulated_text, peer_sentence_buffer)
  /\ \A d \in PeerDeltas : ~Contains(accumulated_text, d)
  /\ \A d \in RunDeltas : ~Contains(peer_accumulated_text, d)

\* Both runs streamed text and completed, and the assistant id the service
\* is left with is the one the second run wrote over that of the first.
C23_Witness ==
  /\ pc = "finished"
  /\ Count("done") = 1
  /\ Count("text") >= 1
  /\ peer_pc = "finished"
  /\ peer_received # <<>>
  /\ service_assistant_id = PeerAssistantId
  /\ assistant_id # PeerAssistantId
  /\ thread_id # PeerThreadId

\* The id events of the start of a run.
IdEvents == Indices("assistant_id") \cup Indices("thread_id")

\* C24: in an audio run the thread_id event (a thread id is known) and the
\* assistant_id event (an assistant id is supplied) are emitted before
\* transcription is invoked, and therefore before the input_text event.
C24_IdsPrecedeTranscription ==
  mode = "audio" =>
    /\ \A i \in Indices("input_text") : \A j \in IdEvents : j < i
    /\ (pc # "stt" /\ thread_id # "") => Indices("thread_id") # {}
    /\ (pc # "stt" /\ assistant_id # "") => Indices("assistant_id") # {}

\* The buffer ends with one of the four terminators, trailing whitespace
\* after the terminator aside; a newline at the end is the terminator
\* itself.
EndsSentence(buffer) ==
  \/ EndsWithTerminator(buffer)
  \/ buffer # <<>> /\ buffer[Len(buffer)] = "\n"

\* C25: after a text delta is appended the buffer is flushed (synthesized
\* and reset to empty) whenever it ends, trailing whitespace aside, with one
\* of the terminators `.`, `!`, `?` or newline and its trimmed length is
\* greater than 3; each of the four terminators triggers the flush.  Once
\* the delta is dealt with, no buffer of that kind is left waiting.
C25_EachTerminatorFlushes ==
  pc \in {"streaming", "tail"} =>
    ~(EndsSentence(sentence_buffer) /\ Len(Strip(sentence_buffer)) > 3)

\* The provider has completed and the remainder of the buffer is long enough
\* to be spoken.
TailIsLong == Len(Strip(sentence_buffer)) > 3

\* The step appends one call of the synthesis provider with this outcome.
SpeechCalled(outcome) ==
  provider_calls' = Append(provider_calls, Call("audio.speech.create", outcome))

\* The step emits the audio chunk of the remainder.
TailChunkEmitted ==
  \E audio_data \in AudioData :
    events' = Append(events, EvAudioChunk(audio_data, Strip(sentence_buffer)))

\* A short or empty remainder: no synthesis call and no event.
TailIsDropped == provider_calls' = provider_calls /\ events' = events

\* C26 as stated: on provider completion a remainder of trimmed length above
\* 3 is synthesized and emitted as a final audio_chunk before the done
\* event; an empty or shorter remainder gives no synthesis call and no
\* audio_chunk.
C26_TailIsSpoken ==
  [][pc = "tail" =>
       /\ Count("done") = 0
       /\ IF TailIsLong
          THEN (\E o \in {"ok", "empty", "raised"} : SpeechCalled(o))
               /\ TailChunkEmitted
          ELSE TailIsDropped]_vars

\* C26, amended: on provider completion, before the done event, a remainder
\* of trimmed length above 3 is sent to synthesis once, and it is emitted
\* as a final audio_chunk exactly when the synthesis call returns; when the
\* call raises nothing is emitted for it.  An empty or shorter remainder
\* gives no synthesis call and no audio_chunk.  In both cases the buffer is
\* empty afterwards.
C26_TailIsSynthesized ==
  [][pc = "tail" =>
       /\ Count("done") = 0
       /\ sentence_buffer' = <<>>
       /\ IF TailIsLong
          THEN \/ (SpeechCalled("ok") \/ SpeechCalled("empty")) /\ TailChunkEmitted
               \/ SpeechCalled("raised") /\ events' = events
          ELSE TailIsDropped]_vars

\* The remainder (it does not end a sentence) was spoken at the tail and its
\* audio chunk is the last event before the emotion stage.
C26_Witness ==
  /\ pc = "emotion"
  /\ segments # <<>>
  /\ segments[Len(segments)].fate = "spoken"
  /\ ~EndsWithTerminator(segments[Len(segments)].text)
  /\ events[Len(events)].type = "audio_chunk"
  /\ events[Len(events)].text = Strip(segments[Len(segments)].text)

\* C27: in a non-greeting run each provider text delta produces exactly one
\* text event carrying exactly that delta, in arrival order (the text
\* events, read in order, are the deltas accumulated so far), and for every
\* completed run done.full_text is the unwanted-phrase filter applied to the
\* concatenation of the text fields of all text events.
C27_TextEventsCarryDeltas ==
  mode # "greeting" =>
    /\ Count("text") = deltas_seen
    /\ \A i \in Indices("text") : events[i].text \in Deltas
    /\ TextUpTo(Len(events)) = accumulated_text
    /\ Completed =>
         DoneEvent.full_text = filter_unwanted_phrases(TextUpTo(Len(events)))

\* A completed run of two deltas whose text the filter changed.
C27_Witness ==
  /\ Completed
  /\ Count("text") = 2
  /\ DoneEvent.full_text # TextUpTo(Len(events))
  /\ DoneEvent.full_text # FallbackPrompt

\* Number of synthesis calls made so far.
SpeechCalls == Len(CallsTo({"audio.speech.create"}))

\* C28: within a run synthesis is sequential.  A step makes at most one
\* synthesis call, and the call has returned or raised when the step ends.
\* A call made while the provider streams is made for a buffer that ends a
\* sentence, right after the text event of the delta that completed it (the
\* last event is that text event and the buffer ends with its text), and
\* the loop is back at the provider stream with an empty buffer before the
\* next delta is consumed.  A delta is consumed only while no sentence is
\* waiting for its synthesis, and the step that consumes it makes no call.
C28_SynthesisIsSequential ==
  [][mode # "greeting" =>
       /\ SpeechCalls' <= SpeechCalls + 1
       /\ SpeechCalls' = SpeechCalls + 1 =>
            /\ pc \in {"flush", "tail"}
            /\ pc' \in {"streaming", "emotion"}
            /\ sentence_buffer' = <<>>
            /\ deltas_seen' = deltas_seen
            /\ provider_calls'[Len(provider_calls')].outcome
                 \in {"ok", "empty", "raised"}
            /\ pc = "flush" =>
                 /\ pc' = "streaming"
                 /\ EndsWithTerminator(sentence_buffer)
                 /\ events[Len(events)].type = "text"
                 /\ IsSuffix(sentence_buffer, events[Len(events)].text)
       /\ deltas_seen' # deltas_seen =>
            /\ pc = "streaming"
            /\ pc' = "flush"
            /\ SpeechCalls' = SpeechCalls]_vars

\* A sentence was spoken between the text events of two deltas.
C28_Witness ==
  /\ mode # "greeting"
  /\ \E i \in 1..(Len(events) - 2) :
       /\ events[i].type = "text"
       /\ events[i + 1].type = "audio_chunk"
       /\ events[i + 1].text = Strip(events[i].text)
       /\ events[i + 2].type = "text"

(***************************************************************************)
(* Properties of the phrase filter, continued (FilterSpec)                 *)
(***************************************************************************)

\* C29: for every input text, the empty one included, the result of the
\* unwanted-phrase filter is neither empty nor shorter than 3 characters.
C29_FilterNeverEmpty ==
  filter_pc # "input" =>
    /\ filter_output # <<>>
    /\ Len(filter_output) >= 3

(***************************************************************************)
(* Properties of the emotion classifier, continued (EmotionSpec)           *)
(***************************************************************************)

\* The fixed category order: happy, sad, excited, calm, concerned, friendly.
Categories == 1..Len(emotion_keywords)

\* Score of a category for a text: its keywords found in the lowered text.
CategoryScore(e, text) ==
  EmotionScore(Lower(text), emotion_keywords[e].keywords)

\* Position of a category in the fixed order.
CategoryOf(name) == CHOOSE e \in Categories : emotion_keywords[e].emotion = name

\* C30: the emotion analyze_emotion returns is the category with the
\* highest score; when several categories tie for the highest score the
\* first of them in the fixed category order is returned; a category with
\* score 0 is returned only when no category matched (the default).
C30_FirstHighestScoreWins ==
  \A i \in 1..Len(emotion_calls) :
    LET text == emotion_calls[i].text
        returned == CategoryOf(emotion_calls[i].result.emotion)
    IN IF \E e \in Categories : CategoryScore(e, text) > 0
       THEN /\ CategoryScore(returned, text) > 0
            /\ \A e \in Categories :
                 CategoryScore(e, text) <= CategoryScore(returned, text)
            /\ \A e \in Categories :
                 CategoryScore(e, text) = CategoryScore(returned, text)
                   => returned <= e
       ELSE emotion_calls[i].result.emotion = default_emotion

\* A text on which happy and excited tie was given happy, and a text on
\* which excited scores more than happy was given excited.
C30_Witness ==
  /\ \E i \in 1..Len(emotion_calls) :
       /\ CategoryScore(CategoryOf("happy"), emotion_calls[i].text) = 1
       /\ CategoryScore(CategoryOf("excited"), emotion_calls[i].text) = 1
       /\ emotion_calls[i].result.emotion = "happy"
  /\ \E i \in 1..Len(emotion_calls) :
       /\ CategoryScore(CategoryOf("happy"), emotion_calls[i].text) = 1
       /\ CategoryScore(CategoryOf("excited"), emotion_calls[i].text) = 3
       /\ emotion_calls[i].result.emotion = "excited"

\* Number of places of the text at which the keyword occurs.
Occurrences(text, kw) ==
  Cardinality({i \in 1..(Len(text) - Len(kw) + 1) :
                 SubSeq(text, i, i + Len(kw) - 1) = kw})

\* Keyword occurrences of a category in the lowered text, every occurrence
\* counted.
RECURSIVE OccurrenceSum(_, _, _)
OccurrenceSum(text_lower, keywords, j) ==
  IF j = 0 THEN 0
  ELSE OccurrenceSum(text_lower, keywords, j - 1)
         + Occurrences(text_lower, keywords[j])

OccurrenceScore(e, text) ==
  OccurrenceSum(Lower(text), emotion_keywords[e].keywords,
                Len(emotion_keywords[e].keywords))

\* C31: a category's score is the count of keyword occurrences in the
\* lower-cased text, a keyword occurring n times contributing n, and the
\* reported intensity is min(score / 3, 1): a text in which one keyword of
\* the returned category occurs three times has intensity 1.
C31_ScoreCountsOccurrences ==
  \A i \in 1..Len(emotion_calls) :
    LET text == emotion_calls[i].text
        returned == CategoryOf(emotion_calls[i].result.emotion)
    IN OccurrenceScore(returned, text) > 0 =>
         emotion_calls[i].result.intensity
           = Intensity(OccurrenceScore(returned, text))

ThreadFetches == CallsTo({"threads.messages.list"})

ThreadCreations == CallsTo({"threads.create"})

\* C33: with force_new_thread set, prepare_conversation does not reuse the
\* candidate thread, whatever it is: when it returns it has made no
\* verification fetch and exactly one threads.create call, and it returns
\* the id of the thread that call created, which is not the candidate, with
\* thread_created=true.  The greeting route calls it with thread_id=None
\* and force_new_thread=True, one of the calls covered here.
C33_ForcedThreadIsNew ==
  (force_new_thread /\ rpc \in {"decide", "returned", "raised"}) =>
    /\ ThreadFetches = <<>>
    /\ rpc = "returned" =>
         /\ Len(ThreadCreations) = 1
         /\ ThreadCreations[1] = CallOn("threads.create", thread_id, "ok")
         /\ thread_created
         /\ thread_id # raw_thread_id
         /\ thread_id \in provider_threads

\* A forced call returned although its candidate was well-formed and live.
C33_Witness ==
  /\ force_new_thread
  /\ rpc = "returned"
  /\ raw_thread_id = "thread_1"
  /\ "thread_1" \in provider_threads
  /\ thread_created

\* C34: after ensure_assistant_id returns, through a retrieval of the given
\* or of the cached id, through the listing or through a creation, the
\* assistant id kept by the service is the id it returned; until then, and
\* when it raises, the service keeps the id it had when the call began.
C34_CacheFollowsResolution ==
  /\ AssistantResolved => service_assistant_id = assistant_id
  /\ ~AssistantResolved => service_assistant_id = cache_at_call
  /\ (rpc \in {"thread", "decide", "returned"}) => AssistantResolved

\* A created assistant replaced another cached one.
C34_Witness ==
  /\ rpc = "returned"
  /\ cache_at_call = "asst_2"
  /\ assistant_id = "asst_new"
  /\ service_assistant_id = "asst_new"

\* The creation raised and the cache is what it was.
C34_WitnessRaised ==
  /\ rpc = "raised"
  /\ ~AssistantResolved
  /\ cache_at_call = "asst_2"

(***************************************************************************)
(* Properties of the end of a run                                          *)
(***************************************************************************)

RunEnded == pc = "finished"

\* C35: the event sequence of a run is finite and cannot be restarted: when
\* the provider stream is finite and every blocking call returns or raises,
\* every run ends, and from then on it produces no event and stays ended.
C35_RunTerminates ==
  /\ <>RunEnded
  /\ [][RunEnded => (RunEnded' /\ events' = events)]_vars

\* A run has ended after it received as many deltas as the stream may hold.
C35_Witness ==
  /\ RunEnded
  /\ deltas_seen = MaxDeltas
  /\ Count("done") = 1

\* Threads whose constructor call has returned a service.
Holders == { t \in Threads : ctor_pc[t] = "obtained" }

\* C36: the services are initialised lazily and once: under every
\* interleaving of the threads that construct a service for the first time
\* at most one object is ever allocated, the body of __init__ runs at most
\* once, no constructor call raises, and a thread that has obtained the
\* service holds the one instance, initialised.
C36_LazyOnce ==
  /\ Len(initialized) <= 1
  /\ init_runs <= 1
  /\ \A t \in Threads :
       /\ ctor_pc[t] # "raised"
       /\ t \in Holders =>
            /\ ctor_self[t] = cls_instance
            /\ initialized[ctor_self[t]] = "True"

\* C37: a done event, when there is one, is the last event of the run: there
\* is at most one, and no text, audio_chunk, thread_id or error event
\* follows it, whatever the provider streams.
C37_DoneIsLast ==
  /\ Count("done") <= 1
  /\ \A i \in Indices("done") : i = Len(events)

\* A run that streamed text and audio has ended with its done event.
C37_Witness ==
  /\ RunEnded
  /\ ~is_greeting
  /\ Count("text") = MaxDeltas
  /\ Count("audio_chunk") >= 1
  /\ events[Len(events)].type = "done"

\* C38: a run emits at most one error event, in every mode: a failure is
\* reported once, by the handler nearest to it, and the run then ends
\* without reporting another.
C38_AtMostOneError == Count("error") <= 1

\* A run was ended by the error chunk the provider stream forwarded, after
\* text had been streamed.
C38_Witness ==
  /\ RunEnded
  /\ Count("error") = 1
  /\ Count("text") >= 1
  /\ events[Len(events)].type = "error"

\* The buffer, trailing whitespace aside, ends with `.`, `!` or `?`.
Terminated(buffer) ==
  \E p \in {".", "!", "?"} : EndsWith(RStrip(buffer), p)

\* The texts taken out of the buffer so far, in order.
SegmentTexts == [k \in 1..Len(segments) |-> segments[k].text]

\* The segments that were synthesized.
SpokenSegments == SelectSeq(segments, LAMBDA s : s.fate = "spoken")

\* C39: in a non-greeting run, once a text delta has been processed the
\* sentence buffer is empty or does not end, trailing whitespace aside, with
\* `.`, `!` or `?`.  A terminated sentence leaves the buffer at the delta
\* that completes it, spoken or not: the segments taken out and the buffer
\* make up the text received, each character once, and the audio chunks
\* carry the trimmed segments whose synthesis returned and nothing else, so
\* a sentence that was too short or whose synthesis failed is in no later
\* audio chunk.
C39_TerminatedSentenceLeavesBuffer ==
  ~is_greeting =>
    /\ pc \in {"streaming", "tail"} =>
         (sentence_buffer = <<>> \/ ~Terminated(sentence_buffer))
    /\ pc \in {"streaming", "tail", "flush"} =>
         Concat(SegmentTexts) \o sentence_buffer = accumulated_text
    /\ AudioTexts =
         [k \in 1..Len(SpokenSegments) |-> Strip(SpokenSegments[k].text)]
    /\ \A k \in 1..Len(segments) :
         segments[k].fate = "skipped" => ~Speakable(Strip(segments[k].text))

\* A short terminated sentence was dropped, and the next sentence was spoken
\* without it.
C39_Witness ==
  /\ ~is_greeting
  /\ pc = "streaming"
  /\ Len(segments) = 2
  /\ segments[1].fate = "skipped"
  /\ Terminated(segments[1].text)
  /\ segments[2].fate = "spoken"
  /\ sentence_buffer = <<>>
  /\ Len(AudioTexts) = 1

\* C40: in a run started with a known thread id, the thread_id event sent at
\* the start and the one forwarded from the provider stream carry that id,
\* the streaming completion is opened on that thread, the done event of the
\* completion names it, and the run creates no thread.
C40_ThreadIsStable ==
  thread_id # "" =>
    /\ \A i \in Indices("thread_id") : events[i].thread_id = thread_id
    /\ ~is_greeting =>
         /\ pc \in {"stream_open", "streaming", "flush", "tail", "emotion",
                    "after_done", "finished"}
              => current_thread_id = thread_id
         /\ \A k \in 1..Len(RunStreamCalls) :
              RunStreamCalls[k].arg.thread_id = thread_id
         /\ \A i \in Indices("done") : events[i].thread_id = thread_id
         /\ CallsTo({"threads.create"}) = <<>>

\* A completed run sent its thread id twice, opened its stream and ended
\* with done.
C40_Witness ==
  /\ Completed
  /\ Count("thread_id") = 2
  /\ Len(RunStreamCalls) = 1
  /\ DoneEvent.thread_id = thread_id

====
